---- MODULE Spec2Model ----
(***************************************************************************)
(* Workflow core of the RMV stainless-steel fabrication backend:           *)
(* appointment scheduling (controllers/appointmentController.js),          *)
(* project lifecycle (projectController) and the payment ledger            *)
(* (paymentController, models/Payment.js, models/Project.js).              *)
(*                                                                         *)
(* The persisted state is the three MongoDB collections plus the users'    *)
(* isActive flag and the wall clock.  Every HTTP handler is one action     *)
(* of the sequential specifications; the step specifications split the     *)
(* handlers that the concurrency claims are about at their awaits.         *)
(***************************************************************************)
EXTENDS Integers, Sequences, FiniteSets, TLC

VARIABLES appointments, active, projects, payments, now, response, reqs,
          audit, faults, clock, users

vars == <<appointments, active, projects, payments, now, response, reqs,
          audit, faults, clock, users>>

(***************************************************************************)
(* Bounds of the model                                                     *)
(***************************************************************************)
MaxAppointments == 2
\* markNoShow has no status guard and can be repeated without end
MaxNoShows == 1
MaxAppointmentHistory == 4

(***************************************************************************)
(* Users and configuration                                                 *)
(***************************************************************************)
NoUser == "none"
Customers == {"c1", "c2"}
\* the customer who books in the model; c2 only ever acts on c1's records
Bookers == {"c1"}
SalesStaffList == <<"s1", "s2">>
SalesStaff == {SalesStaffList[i] : i \in 1..Len(SalesStaffList)}
Agents == {"agent"}
Cashiers == {"cashier"}

appointmentHoursStart == 9
appointmentHoursEnd == 18
cancellationCutoffHours == 24
slotDurationMinutes == 60

\* Requested timestamps, in hours since midnight of the first day: 8 and 18
\* lie outside the business hours, 9 inside.
Timestamps == {8, 9, 18}
getHours(t) == t % 24

AppointmentTypes == {"office_consultation", "ocular_visit"}
AppointmentStatuses ==
  {"pending", "scheduled", "confirmed", "in_progress", "completed",
   "cancelled", "no_show"}

HistoryEntry(s, u) == [status |-> s, changedBy |-> u]

\* the handler that answered last and its HTTP status (res.status)
\* the User collection as its role and isActive paths; the customer has
\* registered through the public registration
RegisteredUsers == <<[email |-> "c1", role |-> "customer", isActive |-> TRUE]>>

Respond(op, code) == [op |-> op, code |-> code]

(***************************************************************************)
(* Collaborators a handler awaits after its write: the audit sink          *)
(* (ActivityLog collection) and the notifier (SMTP transport).  faults     *)
(* holds the collaborators that currently fail; audit holds the records    *)
(* the last request stored.                                                *)
(***************************************************************************)
Collaborators == {"audit", "notifier"}

\* handlers that await an emailService call between save() and the log call
NotifyingOps ==
  {"assignSalesStaff", "cancelAppointment", "submitForApproval",
   "updateProjectStatus", "verifyPayment"}

ActivityRecord(resourceType, action) ==
  [resourceType |-> resourceType, action |-> action]

\* the activityService call of each handler: one call per request
ActivityOf(op) ==
  CASE op = "createAppointment" ->
         <<ActivityRecord("appointment", "appointment_created")>>
    [] op = "assignSalesStaff" ->
         <<ActivityRecord("appointment", "appointment_scheduled")>>
    [] op = "cancelAppointment" ->
         <<ActivityRecord("appointment", "appointment_cancelled")>>
    [] op = "completeAppointment" ->
         <<ActivityRecord("appointment", "appointment_completed")>>
    [] op = "markNoShow" ->
         <<ActivityRecord("appointment", "appointment_no_show")>>
    [] op = "createProject" -> <<ActivityRecord("project", "project_created")>>
    [] op = "submitToEngineer" -> <<ActivityRecord("project", "project_assigned")>>
    [] op = "uploadBlueprint" -> <<ActivityRecord("project", "blueprint_uploaded")>>
    [] op = "uploadCosting" -> <<ActivityRecord("project", "costing_uploaded")>>
    [] op = "submitForApproval" -> <<ActivityRecord("project", "approval_requested")>>
    [] op = "approveProject" -> <<ActivityRecord("project", "project_approved")>>
    [] op = "requestRevision" -> <<ActivityRecord("project", "revision_requested")>>
    [] op = "updateProjectStatus" ->
         <<ActivityRecord("project", "project_status_changed")>>
    [] op = "updatePaymentStages" -> <<ActivityRecord("project", "project_updated")>>
    [] op = "assignFabricationStaff" ->
         <<ActivityRecord("project", "project_assigned")>>
    [] op = "submitPaymentProof" ->
         <<ActivityRecord("payment", "payment_proof_uploaded")>>
    [] op = "verifyPayment" -> <<ActivityRecord("payment", "payment_verified")>>
    [] op = "rejectPayment" -> <<ActivityRecord("payment", "payment_rejected")>>
    [] op = "createUser" -> <<ActivityRecord("user", "user_created")>>
    [] op = "updateUser" -> <<ActivityRecord("user", "user_updated")>>
    [] OTHER -> <<>>

sendEmailUncaught(f) == IF "notifier" \in f THEN "thrown" ELSE "sent"

\* EmailService.sendEmail: a transport error is caught and {success: false}
\* is returned to the handler
sendEmail(f) == IF "notifier" \in f THEN "failed" ELSE "sent"

\* ActivityService.log and ActivityLog.log: the records stored; a failed
\* create is caught and nothing is stored
log(f, records) == IF "audit" \in f THEN <<>> ELSE records

Succeeded(code) == code \in {200, 201}

\* asyncHandler: the status a request ends with after its notifier call; a
\* rejected await would reach the error middleware
Notified(f, op, code) ==
  IF Succeeded(code) /\ op \in NotifyingOps /\ sendEmail(f) = "thrown"
  THEN 500
  ELSE code

\* the records the request stores: the log call is reached on success only
Recorded(f, op, code) ==
  IF Succeeded(Notified(f, op, code)) THEN log(f, ActivityOf(op)) ELSE <<>>

(***************************************************************************)
(* Queries on the appointments collection                                  *)
(***************************************************************************)
ApptIds == 1..Len(appointments)

\* a conflict query that also lets completed appointments free the slot
FindConflictFreesCompleted(appts, staff, date, exceptId) ==
  {i \in 1..Len(appts) :
      /\ i # exceptId
      /\ appts[i].assignedSalesStaff = staff
      /\ appts[i].scheduledDate = date
      /\ appts[i].status \notin {"cancelled", "no_show", "completed"}}

\* Appointment.findOne({assignedSalesStaff, scheduledDate,
\*                      status: {$nin: ['cancelled','no_show']}, _id: {$ne}})
FindConflict(appts, staff, date, exceptId) ==
  {i \in 1..Len(appts) :
      /\ i # exceptId
      /\ appts[i].assignedSalesStaff = staff
      /\ appts[i].scheduledDate = date
      /\ appts[i].status \notin {"cancelled", "no_show"}}

\* Appointment.findAvailableSlots: the business day of a date, in hours
startOfDay(date) == (date \div 24) * 24 + appointmentHoursStart
endOfDay(date) == (date \div 24) * 24 + appointmentHoursEnd

bookedAppointmentsAnyStatus(appts, date, staff) ==
  {i \in 1..Len(appts) :
      /\ appts[i].assignedSalesStaff = staff
      /\ appts[i].scheduledDate >= startOfDay(date)
      /\ appts[i].scheduledDate < endOfDay(date)}

\* this.find({assignedSalesStaff, scheduledDate: {$gte, $lt},
\*            status: {$nin: ['cancelled','no_show']}})
bookedAppointments(appts, date, staff) ==
  {i \in 1..Len(appts) :
      /\ appts[i].assignedSalesStaff = staff
      /\ appts[i].scheduledDate >= startOfDay(date)
      /\ appts[i].scheduledDate < endOfDay(date)
      /\ appts[i].status \notin {"cancelled", "no_show"}}

\* the while loop: one slot per step from currentSlot up to endOfDay
RECURSIVE SlotsFrom(_, _, _, _)
SlotsFrom(appts, booked, currentSlot, end) ==
  IF currentSlot < end
  THEN LET slotEnd == currentSlot + slotDurationMinutes \div 60 IN
         <<[start |-> currentSlot,
            end |-> slotEnd,
            isAvailable |-> ~\E i \in booked :
                               appts[i].scheduledDate = currentSlot]>>
         \o SlotsFrom(appts, booked, slotEnd, end)
  ELSE <<>>

findAvailableSlots(appts, date, staff) ==
  SlotsFrom(appts, bookedAppointments(appts, date, staff),
            startOfDay(date), endOfDay(date))

\* User.find({role: sales_staff, isActive: true}), in collection order
RECURSIVE ActiveStaffFrom(_, _)
ActiveStaffFrom(act, i) ==
  IF i > Len(SalesStaffList) THEN <<>>
  ELSE IF SalesStaffList[i] \in act
       THEN <<SalesStaffList[i]>> \o ActiveStaffFrom(act, i + 1)
       ELSE ActiveStaffFrom(act, i + 1)

\* the for-loop of createAppointment: first staff without a conflict
RECURSIVE FirstFree(_, _, _, _)
FirstFree(appts, staffList, date, i) ==
  IF i > Len(staffList) THEN NoUser
  ELSE IF FindConflict(appts, staffList[i], date, 0) = {}
       THEN staffList[i]
       ELSE FirstFree(appts, staffList, date, i + 1)

autoAssignedAnyType(appts, act, type, date) ==
  FirstFree(appts, ActiveStaffFrom(act, 1), date, 1)

autoAssignedSalesStaff(appts, act, type, date) ==
  IF type = "ocular_visit"
  THEN FirstFree(appts, ActiveStaffFrom(act, 1), date, 1)
  ELSE NoUser

\* the document Appointment.create() inserts
\* appointment.travelFee of a document loaded from the collection: undefined
NoTravelFee == [isRequired |-> FALSE, status |-> "undefined"]

NewAppointment(customer, date, type, staff) ==
  [customer |-> customer,
   assignedSalesStaff |-> staff,
   scheduledDate |-> date,
   appointmentType |-> type,
   status |-> IF staff # NoUser THEN "scheduled" ELSE "pending",
   cancellation |-> <<>>,
   travelFee |-> NoTravelFee,
   statusHistory |->
      <<HistoryEntry("pending", customer)>> \o
      (IF staff # NoUser THEN <<HistoryEntry("scheduled", customer)>> ELSE <<>>)]

OutOfHoursEndInclusive(date) ==
  getHours(date) < appointmentHoursStart \/ getHours(date) > appointmentHoursEnd

\* lines 25-30: hour < start || hour >= end
OutOfHours(date) ==
  getHours(date) < appointmentHoursStart \/ getHours(date) >= appointmentHoursEnd

(***************************************************************************)
(* Initial state: empty collections, every sales staff member active       *)
(***************************************************************************)
Init ==
  /\ appointments = <<>>
  /\ active = SalesStaff
  /\ projects = <<>>
  /\ payments = <<>>
  /\ now = [year |-> 2024, month |-> 1]
  /\ response = Respond("none", 0)
  /\ audit = <<>>
  /\ faults = {}
  /\ clock = 0
  /\ reqs = <<>>
  /\ users = RegisteredUsers

LedgerUnchanged == UNCHANGED <<projects, payments, now, faults, clock, users>>

(***************************************************************************)
(* Scheduling engine handlers, each run to completion                      *)
(***************************************************************************)
createAppointment(customer, date, type) ==
  /\ Len(appointments) < MaxAppointments
  /\ IF OutOfHours(date)
     THEN /\ response' = Respond("createAppointment", Notified(faults, "createAppointment", 400))
          /\ audit' = Recorded(faults, "createAppointment", 400)
          /\ UNCHANGED appointments
     ELSE /\ appointments' = Append(appointments,
                NewAppointment(customer, date, type,
                   autoAssignedSalesStaff(appointments, active, type, date)))
          /\ response' = Respond("createAppointment", Notified(faults, "createAppointment", 201))
          /\ audit' = Recorded(faults, "createAppointment", 201)
  /\ UNCHANGED <<active, reqs>>
  /\ LedgerUnchanged

AssignGuardNoConflictCheck(appts, act, id, staffId) ==
  IF id \notin 1..Len(appts) THEN 404
  ELSE IF appts[id].status # "pending" THEN 400
  ELSE IF staffId \notin act THEN 404
  ELSE 200

\* lines 186-218; act holds the users with role sales_staff and isActive
AssignGuard(appts, act, id, staffId) ==
  IF id \notin 1..Len(appts) THEN 404
  ELSE IF appts[id].status # "pending" THEN 400
  ELSE IF staffId \notin act THEN 404
  ELSE IF FindConflict(appts, staffId, appts[id].scheduledDate, id) # {} THEN 400
  ELSE 200

AssignedWithoutStaff(appt, staffId, caller) ==
  [appt EXCEPT !.status = "scheduled",
               !.statusHistory = Append(@, HistoryEntry("scheduled", caller))]

\* lines 220-228
Assigned(appt, staffId, caller) ==
  [appt EXCEPT !.assignedSalesStaff = staffId,
               !.status = "scheduled",
               !.statusHistory = Append(@, HistoryEntry("scheduled", caller))]

assignSalesStaff(id, staffId, caller) ==
  /\ LET code == AssignGuard(appointments, active, id, staffId) IN
       /\ response' = Respond("assignSalesStaff", Notified(faults, "assignSalesStaff", code))
       /\ audit' = Recorded(faults, "assignSalesStaff", code)
       /\ IF code = 200
          THEN appointments' =
                 [appointments EXCEPT ![id] = Assigned(@, staffId, caller)]
          ELSE UNCHANGED appointments
  /\ UNCHANGED <<active, reqs>>
  /\ LedgerUnchanged

\* lines 330-333: now < scheduledDate - cancellationCutoffHours
isWithinPolicy(time, date) == time < date - cancellationCutoffHours

CancelGuardEnforcesCutoff(appts, id, caller) ==
  IF id \notin 1..Len(appts) THEN 404
  ELSE IF caller \in Customers /\ appts[id].customer # caller THEN 403
  ELSE IF appts[id].status \in {"cancelled", "completed", "no_show"} THEN 400
  ELSE IF ~isWithinPolicy(clock, appts[id].scheduledDate) THEN 400
  ELSE 200

\* lines 312-328
CancelGuard(appts, id, caller) ==
  IF id \notin 1..Len(appts) THEN 404
  ELSE IF caller \in Customers /\ appts[id].customer # caller THEN 403
  ELSE IF appts[id].status \in {"cancelled", "completed", "no_show"} THEN 400
  ELSE 200

\* lines 339-352: the cancelled document
Cancelled(appt, caller, time) ==
  [appt EXCEPT !.status = "cancelled",
               !.cancellation =
                  <<[cancelledBy |-> caller,
                     isWithinPolicy |-> isWithinPolicy(time, appt.scheduledDate)]>>,
               !.statusHistory = Append(@, HistoryEntry("cancelled", caller))]

cancelAppointment(id, caller) ==
  /\ LET code == CancelGuard(appointments, id, caller) IN
       /\ response' = Respond("cancelAppointment", Notified(faults, "cancelAppointment", code))
       /\ audit' = Recorded(faults, "cancelAppointment", code)
       /\ IF code = 200
          THEN appointments' = [appointments EXCEPT ![id] =
                                  Cancelled(@, caller, clock)]
          ELSE UNCHANGED appointments
  /\ UNCHANGED <<active, reqs>>
  /\ LedgerUnchanged

\* appointment.assignedSalesStaff.toString() throws a TypeError (500) when no
\* staff is assigned
CompleteGuard(appts, id, caller) ==
  IF id \notin 1..Len(appts) THEN 404
  ELSE IF appts[id].assignedSalesStaff = NoUser THEN 500
  ELSE IF appts[id].assignedSalesStaff # caller THEN 403
  ELSE IF appts[id].status \notin {"scheduled", "confirmed", "in_progress"} THEN 400
  ELSE 200

completeAppointment(id, caller) ==
  /\ LET code == CompleteGuard(appointments, id, caller) IN
       /\ response' = Respond("completeAppointment", Notified(faults, "completeAppointment", code))
       /\ audit' = Recorded(faults, "completeAppointment", code)
       /\ IF code = 200
          THEN appointments' = [appointments EXCEPT ![id] =
                 [@ EXCEPT !.status = "completed",
                           !.statusHistory =
                              Append(@, HistoryEntry("completed", caller))]]
          ELSE UNCHANGED appointments
  /\ UNCHANGED <<active, reqs>>
  /\ LedgerUnchanged

NoShowCount(appt) ==
  Cardinality({k \in 1..Len(appt.statusHistory) :
                  appt.statusHistory[k].status = "no_show"})

NoShowGuard(appts, id) ==
  IF id \notin 1..Len(appts) THEN 404 ELSE 200

markNoShow(id, caller) ==
  /\ id \in ApptIds => NoShowCount(appointments[id]) < MaxNoShows
  /\ LET code == NoShowGuard(appointments, id) IN
       /\ response' = Respond("markNoShow", Notified(faults, "markNoShow", code))
       /\ audit' = Recorded(faults, "markNoShow", code)
       /\ IF code = 200
          THEN appointments' = [appointments EXCEPT ![id] =
                 [@ EXCEPT !.status = "no_show",
                           !.statusHistory =
                              Append(@, HistoryEntry("no_show", caller))]]
          ELSE UNCHANGED appointments
  /\ UNCHANGED <<active, reqs>>
  /\ LedgerUnchanged

\* ids a request may name: every stored document and one unknown id
ApptIdInputs == 1..(Len(appointments) + 1)

\* requests name a stored appointment
Next ==
  \/ \E c \in Bookers, t \in Timestamps, ty \in AppointmentTypes :
        createAppointment(c, t, ty)
  \/ \E id \in ApptIds, s \in SalesStaff, a \in Agents :
        assignSalesStaff(id, s, a)
  \/ \E id \in ApptIds, u \in Customers :
        cancelAppointment(id, u)
  \/ \E id \in ApptIds, s \in SalesStaff : completeAppointment(id, s)
  \/ \E id \in ApptIds, u \in Agents : markNoShow(id, u)

Spec == Init /\ [][Next]_vars

(***************************************************************************)
(* The scheduling handlers while the SMTP transport and the ActivityLog    *)
(* collection fail and recover.                                            *)
(***************************************************************************)
\* transporter.sendMail or ActivityLog.create starts to reject
collaboratorFails(c) ==
  /\ c \notin faults
  /\ faults' = faults \cup {c}
  /\ UNCHANGED <<appointments, active, projects, payments, now, response,
                 reqs, audit, clock, users>>

collaboratorRecovers(c) ==
  /\ c \in faults
  /\ faults' = faults \ {c}
  /\ UNCHANGED <<appointments, active, projects, payments, now, response,
                 reqs, audit, clock, users>>

NextAudit ==
  \/ \E c \in Bookers, t \in Timestamps, ty \in AppointmentTypes :
        createAppointment(c, t, ty)
  \/ \E id \in ApptIdInputs, s \in SalesStaff, a \in Agents :
        assignSalesStaff(id, s, a)
  \/ \E id \in ApptIdInputs, u \in Customers :
        cancelAppointment(id, u)
  \/ \E id \in ApptIdInputs, s \in SalesStaff : completeAppointment(id, s)
  \/ \E c \in Collaborators : collaboratorFails(c)
  \/ \E c \in Collaborators : collaboratorRecovers(c)

SpecAudit == Init /\ [][NextAudit]_vars

(***************************************************************************)
(* Booking and manual assignment with any part of the sales staff          *)
(* deactivated (User.isActive is set outside the workflow handlers).       *)
(***************************************************************************)
InitBooking ==
  /\ appointments = <<>>
  /\ active \in SUBSET SalesStaff
  /\ projects = <<>>
  /\ payments = <<>>
  /\ now = [year |-> 2024, month |-> 1]
  /\ response = Respond("none", 0)
  /\ audit = <<>>
  /\ faults = {}
  /\ clock = 0
  /\ reqs = <<>>
  /\ users = RegisteredUsers

\* users an agent may name as salesStaffId: the sales staff, active or not,
\* and a user with another role
AssignTargets == SalesStaff \cup Agents

\* requested timestamps: one before opening and two bookable hours
BookingTimestamps == {8, 9, 10}

NextBooking ==
  \/ \E c \in Bookers, t \in BookingTimestamps, ty \in AppointmentTypes :
        createAppointment(c, t, ty)
  \/ \E id \in ApptIdInputs, s \in AssignTargets, a \in Agents :
        assignSalesStaff(id, s, a)
  \/ \E id \in ApptIdInputs, u \in Customers :
        cancelAppointment(id, u)

SpecBooking == InitBooking /\ [][NextBooking]_vars

(***************************************************************************)
(* Cancellation while the wall clock (in hours) runs towards and past the  *)
(* appointment.                                                            *)
(***************************************************************************)
\* a bookable instant on the second day: 33 = 24 + 9, nine o'clock
CancelTimestamps == {33}

\* instants at which requests arrive: more than cancellationCutoffHours
\* before the appointment, exactly at the cutoff, and after the appointment
ClockLine == <<0, 9, 40>>

\* time passes between two requests
clockAdvances ==
  /\ \E k \in 1..(Len(ClockLine) - 1) :
        clock = ClockLine[k] /\ clock' = ClockLine[k + 1]
  /\ UNCHANGED <<appointments, active, projects, payments, now, response,
                 reqs, audit, faults, users>>

\* the users who may call cancelAppointment: customers and staff
CancelCallers == Customers \cup Agents

NextCancel ==
  \/ \E c \in Bookers, t \in CancelTimestamps, ty \in AppointmentTypes :
        createAppointment(c, t, ty)
  \/ \E id \in ApptIds, u \in CancelCallers : cancelAppointment(id, u)
  \/ clockAdvances

SpecCancel == Init /\ [][NextCancel]_vars

(***************************************************************************)
(* The travel-fee handlers of ocular visits                                *)
(***************************************************************************)
\* appointment.save(): appointmentSchema has no travelFee path, so under
\* Mongoose's strict mode the property assigned by the handler stays on the
\* in-memory document and is not written to the collection
SchemaPaths(doc) == [doc EXCEPT !.travelFee = NoTravelFee]

\* room for one more statusHistory entry
HistoryRoom(id) ==
  id \in ApptIds => Len(appointments[id].statusHistory) < MaxAppointmentHistory

SetTravelFeeGuard(appts, id) ==
  IF id \notin 1..Len(appts) THEN 404
  ELSE IF appts[id].appointmentType # "ocular_visit" THEN 400
  ELSE 200

TravelFeeSetChangesStatus(appt, isRequired, caller) ==
  [appt EXCEPT
     !.status = "confirmed",
     !.travelFee = [isRequired |-> isRequired,
                    status |-> IF isRequired THEN "pending" ELSE "not_required"],
     !.statusHistory = Append(@, HistoryEntry("confirmed", caller))]

\* lines 483-494: the document setTravelFee saves
TravelFeeSet(appt, isRequired, caller) ==
  [appt EXCEPT
     !.travelFee = [isRequired |-> isRequired,
                    status |-> IF isRequired THEN "pending" ELSE "not_required"],
     !.statusHistory = Append(@, HistoryEntry(appt.status, caller))]

setTravelFee(id, isRequired, caller) ==
  /\ HistoryRoom(id)
  /\ LET code == SetTravelFeeGuard(appointments, id) IN
       /\ response' = Respond("setTravelFee", code)
       /\ IF code = 200
          THEN appointments' = [appointments EXCEPT ![id] =
                 SchemaPaths(TravelFeeSet(@, isRequired, caller))]
          ELSE UNCHANGED appointments
  /\ UNCHANGED <<active, reqs, audit>>
  /\ LedgerUnchanged

\* lines 513-528
CollectGuard(appts, id) ==
  IF id \notin 1..Len(appts) THEN 404
  ELSE IF appts[id].appointmentType # "ocular_visit" THEN 400
  ELSE IF ~appts[id].travelFee.isRequired
          \/ appts[id].travelFee.status = "not_required" THEN 400
  ELSE IF appts[id].travelFee.status # "pending" THEN 400
  ELSE 200

\* the travelFee status set, with a statusHistory entry of the same status
TravelFeeMoved(appt, status, caller) ==
  [appt EXCEPT
     !.travelFee.status = status,
     !.statusHistory = Append(@, HistoryEntry(appt.status, caller))]

collectTravelFee(id, caller) ==
  /\ HistoryRoom(id)
  /\ LET code == CollectGuard(appointments, id) IN
       /\ response' = Respond("collectTravelFee", code)
       /\ IF code = 200
          THEN appointments' = [appointments EXCEPT ![id] =
                 SchemaPaths(TravelFeeMoved(@, "collected", caller))]
          ELSE UNCHANGED appointments
  /\ UNCHANGED <<active, reqs, audit>>
  /\ LedgerUnchanged

\* lines 559-570
VerifyFeeGuard(appts, id) ==
  IF id \notin 1..Len(appts) THEN 404
  ELSE IF ~appts[id].travelFee.isRequired
          \/ appts[id].travelFee.status = "not_required" THEN 400
  ELSE IF appts[id].travelFee.status # "collected" THEN 400
  ELSE 200

verifyTravelFee(id, caller) ==
  /\ HistoryRoom(id)
  /\ LET code == VerifyFeeGuard(appointments, id) IN
       /\ response' = Respond("verifyTravelFee", code)
       /\ IF code = 200
          THEN appointments' = [appointments EXCEPT ![id] =
                 SchemaPaths(TravelFeeMoved(@, "verified", caller))]
          ELSE UNCHANGED appointments
  /\ UNCHANGED <<active, reqs, audit>>
  /\ LedgerUnchanged

NextTravelFee ==
  \/ \E c \in Bookers, t \in BookingTimestamps, ty \in AppointmentTypes :
        createAppointment(c, t, ty)
  \/ \E id \in ApptIdInputs, b \in BOOLEAN, u \in Cashiers :
        setTravelFee(id, b, u)
  \/ \E id \in ApptIdInputs, s \in SalesStaff : collectTravelFee(id, s)
  \/ \E id \in ApptIdInputs, u \in Cashiers : verifyTravelFee(id, u)

SpecTravelFee == Init /\ [][NextTravelFee]_vars

\* C1: after any sequence of completed scheduling operations, no sales staff
\* member has two appointments at the same scheduledDate whose status is
\* outside {cancelled, no_show}.
NoDoubleBooking ==
  \A i, j \in ApptIds :
     ( /\ i # j
       /\ appointments[i].assignedSalesStaff # NoUser
       /\ appointments[i].assignedSalesStaff = appointments[j].assignedSalesStaff
       /\ appointments[i].scheduledDate = appointments[j].scheduledDate
       /\ appointments[i].status \notin {"cancelled", "no_show"} )
     => appointments[j].status \in {"cancelled", "no_show"}

\* the conflict check has acted: two live appointments at one timestamp went
\* to two different staff members
SlotSharedByTwoStaff ==
  \E i, j \in ApptIds :
     /\ i < j
     /\ appointments[i].scheduledDate = appointments[j].scheduledDate
     /\ appointments[i].assignedSalesStaff # NoUser
     /\ appointments[j].assignedSalesStaff # NoUser
     /\ appointments[i].assignedSalesStaff # appointments[j].assignedSalesStaff
     /\ appointments[i].status \notin {"cancelled", "no_show"}
     /\ appointments[j].status \notin {"cancelled", "no_show"}

\* C10: once an appointment is completed, cancelled or no_show its status
\* never changes again, and markNoShow / cancelAppointment on it fail and
\* leave the appointment as it was.
Terminal(status) == status \in {"completed", "cancelled", "no_show"}

TerminalAppointmentFrozen ==
  [][\A i \in ApptIds :
        Terminal(appointments[i].status) =>
          /\ appointments'[i].status = appointments[i].status
          /\ (\E u \in Customers \cup Agents :
                 markNoShow(i, u) \/ cancelAppointment(i, u))
             => (response'.code # 200 /\ appointments'[i] = appointments[i])]_vars

(***************************************************************************)
(* Step specification of the two handlers that write assignedSalesStaff:   *)
(* each await of createAppointment and assignSalesStaff is one step, and   *)
(* steps of different requests interleave as the event loop allows.        *)
(***************************************************************************)
MaxRequests == 2

ReqIds == 1..MaxRequests

Idle ==
  [op |-> "idle", pc |-> "idle", customer |-> NoUser, date |-> 0,
   type |-> "none", staffList |-> <<>>, idx |-> 0, staff |-> NoUser, id |-> 0,
   amount |-> 0, loaded |-> <<>>, doc |-> <<>>]

InitRace ==
  /\ appointments = <<>>
  /\ active = SalesStaff
  /\ projects = <<>>
  /\ payments = <<>>
  /\ now = [year |-> 2024, month |-> 1]
  /\ response = Respond("none", 0)
  /\ audit = <<>>
  /\ faults = {}
  /\ clock = 0
  /\ reqs = [r \in ReqIds |-> Idle]
  /\ users = RegisteredUsers

\* lines 22-38: hour check, then User.find for an ocular visit
beginCreateAppointment(r, customer, date, type) ==
  /\ reqs[r].op = "idle"
  /\ Len(appointments) +
       Cardinality({q \in ReqIds : reqs[q].op = "createAppointment"})
         < MaxAppointments
  /\ IF OutOfHours(date)
     THEN /\ response' = Respond("createAppointment", Notified(faults, "createAppointment", 400))
          /\ audit' = Recorded(faults, "createAppointment", 400)
          /\ UNCHANGED reqs
     ELSE /\ reqs' = [reqs EXCEPT ![r] =
                [Idle EXCEPT !.op = "createAppointment",
                             !.pc = IF type = "ocular_visit" THEN "scan" ELSE "create",
                             !.customer = customer, !.date = date, !.type = type,
                             !.staffList = IF type = "ocular_visit"
                                           THEN ActiveStaffFrom(active, 1) ELSE <<>>,
                             !.idx = 1]]
          /\ UNCHANGED <<response, audit>>
  /\ UNCHANGED <<appointments, active>>
  /\ LedgerUnchanged

\* lines 42-53: one iteration of the for-loop, one Appointment.findOne
scanStaff(r) ==
  /\ reqs[r].op = "createAppointment" /\ reqs[r].pc = "scan"
  /\ LET q == reqs[r] IN
       reqs' = [reqs EXCEPT ![r] =
          IF q.idx > Len(q.staffList)
          THEN [q EXCEPT !.pc = "create"]
          ELSE IF FindConflict(appointments, q.staffList[q.idx], q.date, 0) = {}
               THEN [q EXCEPT !.pc = "create", !.staff = q.staffList[q.idx]]
               ELSE [q EXCEPT !.idx = q.idx + 1]]
  /\ UNCHANGED <<appointments, active, response, audit>>
  /\ LedgerUnchanged

\* lines 57-81: Appointment.create
insertAppointment(r) ==
  /\ reqs[r].op = "createAppointment" /\ reqs[r].pc = "create"
  /\ appointments' = Append(appointments,
        NewAppointment(reqs[r].customer, reqs[r].date, reqs[r].type, reqs[r].staff))
  /\ reqs' = [reqs EXCEPT ![r] = Idle]
  /\ response' = Respond("createAppointment", Notified(faults, "createAppointment", 201))
  /\ audit' = Recorded(faults, "createAppointment", 201)
  /\ UNCHANGED active
  /\ LedgerUnchanged

\* lines 186-218: findById, the status guard, User.findOne and the conflict
\* Appointment.findOne; the reads see the collection as it is at this step
beginAssignSalesStaff(r, id, staffId, caller) ==
  /\ reqs[r].op = "idle"
  /\ LET code == AssignGuard(appointments, active, id, staffId) IN
       IF code = 200
       THEN /\ reqs' = [reqs EXCEPT ![r] =
                  [Idle EXCEPT !.op = "assignSalesStaff", !.pc = "save",
                               !.id = id, !.staff = staffId, !.customer = caller]]
            /\ UNCHANGED <<response, audit>>
       ELSE /\ response' = Respond("assignSalesStaff", Notified(faults, "assignSalesStaff", code))
            /\ audit' = Recorded(faults, "assignSalesStaff", code)
            /\ UNCHANGED reqs
  /\ UNCHANGED <<appointments, active>>
  /\ LedgerUnchanged

\* lines 220-230: appointment.save() writes the modified paths ($set of
\* assignedSalesStaff and status, $push on statusHistory)
saveAssignment(r) ==
  /\ reqs[r].op = "assignSalesStaff" /\ reqs[r].pc = "save"
  /\ appointments' = [appointments EXCEPT ![reqs[r].id] =
                         Assigned(@, reqs[r].staff, reqs[r].customer)]
  /\ reqs' = [reqs EXCEPT ![r] = Idle]
  /\ response' = Respond("assignSalesStaff", Notified(faults, "assignSalesStaff", 200))
  /\ audit' = Recorded(faults, "assignSalesStaff", 200)
  /\ UNCHANGED active
  /\ LedgerUnchanged

NextRace ==
  \/ \E r \in ReqIds, c \in Bookers, t \in Timestamps, ty \in AppointmentTypes :
        beginCreateAppointment(r, c, t, ty)
  \/ \E r \in ReqIds : scanStaff(r)
  \/ \E r \in ReqIds : insertAppointment(r)
  \/ \E r \in ReqIds, id \in ApptIdInputs, s \in SalesStaff, a \in Agents :
        beginAssignSalesStaff(r, id, s, a)
  \/ \E r \in ReqIds : saveAssignment(r)

SpecRace == InitRace /\ [][NextRace]_vars

\* C2: when requests for the same staff member and scheduledDate interleave,
\* at most one of them ends with that staff member on a live appointment at
\* that timestamp.
AtMostOneWinnerPerSlot ==
  \A s \in SalesStaff, t \in Timestamps :
     Cardinality({i \in ApptIds :
                    /\ appointments[i].assignedSalesStaff = s
                    /\ appointments[i].scheduledDate = t
                    /\ appointments[i].status \notin {"cancelled", "no_show"}}) <= 1

(***************************************************************************)
(* Project lifecycle engine and payment ledger.  The model follows one     *)
(* project and its payments; projects do not share state except through    *)
(* the receipt counter.                                                    *)
(***************************************************************************)
MaxProjectHistory == 6
MaxPaymentHistory == 6
MaxVersions == 1
\* uploads per document where revisions are followed
MaxUploads == 3

\* a Number field that holds no value (JavaScript undefined)
Undefined == -1

\* users with role engineer: Engineers have isActive true, FormerEngineers
\* have isActive false
Engineers == {"eng"}
FormerEngineers == {"former"}
\* users with role fabrication_staff: the active ones and a deactivated one
FabricationStaff == {"f1", "f2"}
FormerFabricationStaff == {"f0"}
Staff == {"admin"}

Stages == {"initial", "midpoint", "final"}
StageList == <<"initial", "midpoint", "final">>

\* the status enum of the Project schema
ProjectStatuses ==
  {"draft", "pending_blueprint", "blueprint_submitted",
   "pending_customer_approval", "revision_requested", "approved",
   "pending_initial_payment", "initial_payment_verified", "in_fabrication",
   "pending_midpoint_payment", "midpoint_payment_verified",
   "ready_for_installation", "in_installation", "pending_final_payment",
   "completed", "cancelled", "on_hold"}

\* the values schemas.updateProjectStatus lets through
updateProjectStatusSchema ==
  ProjectStatuses \cup
  {"blueprint_pending", "blueprint_uploaded", "client_approved",
   "client_rejected", "dp_pending", "fabrication_done", "ready_for_pickup",
   "released"}

\* config.business.paymentStages
defaultPercentages == [initial |-> 30, midpoint |-> 40, final |-> 30]

\* the wall clock as [year, month]; the instants at which requests arrive
TimeLine == <<[year |-> 2024, month |-> 12], [year |-> 2025, month |-> 1]>>

\* Math.round(total * percentage / 100) for non-negative operands
RoundPercent(total, percentage) == (total * percentage + 50) \div 100

\* the stage-amount arithmetic of the pre-save hook and updatePaymentStages
StageAmounts(total, pct) ==
  LET i == RoundPercent(total, pct.initial)
      m == RoundPercent(total, pct.midpoint)
  IN [initial |-> i, midpoint |-> m, final |-> total - i - m]

\* if (approvedAmount): undefined and 0 are both falsy
Truthy(n) == n # Undefined /\ n # 0

\* projectSchema.pre('save'): recompute the stage amounts
PreSave(p) ==
  IF Truthy(p.costing.approvedAmount)
  THEN [p EXCEPT !.amounts = StageAmounts(p.costing.approvedAmount, p.percentages)]
  ELSE p

\* fabrication.startedAt of a project whose fabrication has not started
NoDate == [year |-> 0, month |-> 0]

NewProject(customer, caller) ==
  [customer |-> customer,
   status |-> "draft",
   statusHistory |-> <<HistoryEntry("draft", caller)>>,
   engineer |-> NoUser,
   fabricationStaff |-> <<>>,
   blueprint |-> [currentVersion |-> 0, versions |-> <<>>],
   costing |-> [currentVersion |-> 0, versions |-> <<>>, approvedAmount |-> Undefined],
   isApproved |-> FALSE,
   revisions |-> 0,
   fabricationStartedAt |-> NoDate,
   fabricationCompletedAt |-> NoDate,
   fabricationProgress |-> 0,
   installationStartedAt |-> NoDate,
   installationCompletedAt |-> NoDate,
   actualCompletion |-> NoDate,
   percentages |-> defaultPercentages,
   amounts |-> [initial |-> Undefined, midpoint |-> Undefined, final |-> Undefined]]

NoReceipt == [year |-> 0, month |-> 0, seq |-> 0]

NewPayment(pid, customer, stage, expected, createdAt) ==
  [project |-> pid,
   customer |-> customer,
   stage |-> stage,
   expected |-> expected,
   received |-> Undefined,
   status |-> "pending",
   verifiedBy |-> NoUser,
   rejectedBy |-> NoUser,
   receipt |-> NoReceipt,
   proof |-> FALSE,
   createdAt |-> createdAt,
   statusHistory |-> <<>>]

ProjectIds == 1..Len(projects)
PaymentIds == 1..Len(payments)
ProjectIdInputs == 1..(Len(projects) + 1)
PaymentIdInputs == 1..(Len(payments) + 1)

PaymentsOf(pays, pid) == {k \in 1..Len(pays) : pays[k].project = pid}

PushStatus(p, status, caller) ==
  [p EXCEPT !.status = status,
            !.statusHistory = Append(@, HistoryEntry(status, caller))]

Room(p, n) == Len(p.statusHistory) + n <= MaxProjectHistory

AppointmentsUnchanged ==
  UNCHANGED <<appointments, active, reqs, faults, clock, users>>

InitLedger ==
  /\ appointments = <<>>
  /\ active = SalesStaff
  /\ projects = <<>>
  /\ payments = <<>>
  /\ now = TimeLine[1]
  /\ response = Respond("none", 0)
  /\ audit = <<>>
  /\ faults = {}
  /\ clock = 0
  /\ reqs = <<>>
  /\ users = RegisteredUsers

\* time passes between requests
Tick ==
  /\ \E k \in 1..(Len(TimeLine) - 1) : now = TimeLine[k] /\ now' = TimeLine[k + 1]
  /\ UNCHANGED <<projects, payments, response, audit>>
  /\ AppointmentsUnchanged

createProject(customerId, caller) ==
  /\ projects = <<>>
  /\ IF customerId \notin Customers
     THEN /\ response' = Respond("createProject", Notified(faults, "createProject", 404))
          /\ audit' = Recorded(faults, "createProject", 404)
          /\ UNCHANGED projects
     ELSE /\ projects' = Append(projects, NewProject(customerId, caller))
          /\ response' = Respond("createProject", Notified(faults, "createProject", 201))
          /\ audit' = Recorded(faults, "createProject", 201)
  /\ UNCHANGED <<payments, now>>
  /\ AppointmentsUnchanged

SubmitToEngineerGuardIgnoresActive(projs, pid, engineerId) ==
  IF pid \notin 1..Len(projs) THEN 404
  ELSE IF projs[pid].status # "draft" THEN 400
  ELSE IF engineerId \notin Engineers \cup FormerEngineers THEN 404
  ELSE 200

\* lines 245-262; User.findOne({_id, role: engineer, isActive: true})
SubmitToEngineerGuard(projs, pid, engineerId) ==
  IF pid \notin 1..Len(projs) THEN 404
  ELSE IF projs[pid].status # "draft" THEN 400
  ELSE IF engineerId \notin Engineers THEN 404
  ELSE 200

submitToEngineer(pid, engineerId, caller) ==
  /\ LET code == SubmitToEngineerGuard(projects, pid, engineerId) IN
       /\ response' = Respond("submitToEngineer", Notified(faults, "submitToEngineer", code))
       /\ audit' = Recorded(faults, "submitToEngineer", code)
       /\ IF code = 200
          THEN projects' = [projects EXCEPT ![pid] =
                 PreSave(PushStatus([@ EXCEPT !.engineer = engineerId],
                                    "pending_blueprint", caller))]
          ELSE UNCHANGED projects
  /\ UNCHANGED <<payments, now>>
  /\ AppointmentsUnchanged

\* room for one more version of the blueprint or the costing of a project
UploadRoom(pid, kind, bound) ==
  pid \in ProjectIds => projects[pid][kind].currentVersion < bound

\* (currentVersion || 0) + 1
newVersion(doc) == doc.currentVersion + 1

UploadActivityAlwaysUploaded(kind, version) ==
  <<ActivityRecord("project", IF kind = "blueprint" THEN "blueprint_uploaded"
                              ELSE "costing_uploaded")>>

\* the action logged by an upload: <kind>_uploaded for version 1, then
\* <kind>_revised
UploadActivity(kind, version) ==
  <<ActivityRecord("project",
      IF kind = "blueprint"
      THEN (IF version = 1 THEN "blueprint_uploaded" ELSE "blueprint_revised")
      ELSE (IF version = 1 THEN "costing_uploaded" ELSE "costing_revised"))>>

WithBlueprint(p, caller) ==
  PreSave([p EXCEPT
     !.blueprint.versions =
        Append(@, [version |-> newVersion(p.blueprint), uploadedBy |-> caller]),
     !.blueprint.currentVersion = newVersion(p.blueprint)])

uploadBlueprint(pid, caller) ==
  /\ IF pid \notin ProjectIds
     THEN /\ response' = Respond("uploadBlueprint", Notified(faults, "uploadBlueprint", 404))
          /\ audit' = Recorded(faults, "uploadBlueprint", 404)
          /\ UNCHANGED projects
     ELSE /\ projects' = [projects EXCEPT ![pid] = WithBlueprint(@, caller)]
          /\ response' = Respond("uploadBlueprint", Notified(faults, "uploadBlueprint", 200))
          /\ audit' = log(faults, UploadActivity("blueprint",
                                                 newVersion(projects[pid].blueprint)))
  /\ UNCHANGED <<payments, now>>
  /\ AppointmentsUnchanged

WithCosting(p, totalAmount) ==
  PreSave([p EXCEPT
     !.costing.versions =
        Append(@, [version |-> newVersion(p.costing),
                   totalAmount |-> totalAmount]),
     !.costing.currentVersion = newVersion(p.costing)])

uploadCosting(pid, totalAmount, caller) ==
  /\ IF pid \notin ProjectIds
     THEN /\ response' = Respond("uploadCosting", Notified(faults, "uploadCosting", 404))
          /\ audit' = Recorded(faults, "uploadCosting", 404)
          /\ UNCHANGED projects
     ELSE /\ projects' = [projects EXCEPT ![pid] = WithCosting(@, totalAmount)]
          /\ response' = Respond("uploadCosting", Notified(faults, "uploadCosting", 200))
          /\ audit' = log(faults, UploadActivity("costing",
                                                 newVersion(projects[pid].costing)))
  /\ UNCHANGED <<payments, now>>
  /\ AppointmentsUnchanged

SubmitForApprovalGuardBlueprintOnly(projs, pid) ==
  IF pid \notin 1..Len(projs) THEN 404
  ELSE IF projs[pid].blueprint.currentVersion = 0 THEN 400
  ELSE 200

\* lines 407-416
SubmitForApprovalGuard(projs, pid) ==
  IF pid \notin 1..Len(projs) THEN 404
  ELSE IF projs[pid].blueprint.currentVersion = 0
          \/ projs[pid].costing.currentVersion = 0 THEN 400
  ELSE 200

SubmittedForApproval(p, caller) ==
  PreSave(PushStatus(p, "pending_customer_approval", caller))

submitForApproval(pid, caller) ==
  /\ pid \in ProjectIds => Room(projects[pid], 1)
  /\ LET code == SubmitForApprovalGuard(projects, pid) IN
       /\ response' = Respond("submitForApproval", Notified(faults, "submitForApproval", code))
       /\ audit' = Recorded(faults, "submitForApproval", code)
       /\ IF code = 200
          THEN projects' = [projects EXCEPT ![pid] = SubmittedForApproval(@, caller)]
          ELSE UNCHANGED projects
  /\ UNCHANGED <<payments, now>>
  /\ AppointmentsUnchanged

ApprovalGuardNoOwner(projs, pid, caller) ==
  IF pid \notin 1..Len(projs) THEN 404
  ELSE IF projs[pid].status # "pending_customer_approval" THEN 400
  ELSE 200

\* the guards shared by approveProject and requestRevision
ApprovalGuard(projs, pid, caller) ==
  IF pid \notin 1..Len(projs) THEN 404
  ELSE IF projs[pid].customer # caller THEN 403
  ELSE IF projs[pid].status # "pending_customer_approval" THEN 400
  ELSE 200

requestRevision(pid, caller) ==
  /\ pid \in ProjectIds => Room(projects[pid], 1)
  /\ LET code == ApprovalGuard(projects, pid, caller) IN
       /\ response' = Respond("requestRevision", Notified(faults, "requestRevision", code))
       /\ audit' = Recorded(faults, "requestRevision", code)
       /\ IF code = 200
          THEN projects' = [projects EXCEPT ![pid] =
                 PreSave(PushStatus([@ EXCEPT !.revisions = @ + 1],
                                    "revision_requested", caller))]
          ELSE UNCHANGED projects
  /\ UNCHANGED <<payments, now>>
  /\ AppointmentsUnchanged

\* approveProject, lines 469-488: the document written by the first save
\* (called only when the project has a costing version)
ApprovedProject(p, caller) ==
  PreSave(PushStatus(
     [p EXCEPT !.isApproved = TRUE,
               !.costing.approvedAmount =
                  p.costing.versions[Len(p.costing.versions)].totalAmount],
     "approved", caller))

\* Payment.create, lines 491-519: 400 when a document fails validation
\* (amount.expected is required) or hits the unique {project, stage} index
PaymentCreateCode(pays, pid, p) ==
  IF \E st \in Stages : p.amounts[st] = Undefined THEN 400
  ELSE IF PaymentsOf(pays, pid) # {} THEN 400
  ELSE 200

StagePaymentsTwoStages(pid, p, createdAt) ==
  [k \in 1..2 |->
     NewPayment(pid, p.customer, StageList[k], p.amounts[StageList[k]], createdAt)]

StagePayments(pid, p, createdAt) ==
  [k \in 1..3 |->
     NewPayment(pid, p.customer, StageList[k], p.amounts[StageList[k]], createdAt)]

\* lines 522-528: the second save
AwaitingInitialPayment(p, caller) ==
  PushStatus(p, "pending_initial_payment", caller)

ApproveGuard(projs, pid, caller) ==
  IF ApprovalGuard(projs, pid, caller) # 200 THEN ApprovalGuard(projs, pid, caller)
  ELSE IF projs[pid].costing.versions = <<>> THEN 500
  ELSE 200

approveProject(pid, caller) ==
  /\ ApproveGuard(projects, pid, caller) = 200
        => Room(projects[pid],
                IF PaymentCreateCode(payments, pid,
                                     ApprovedProject(projects[pid], caller)) = 200
                THEN 2 ELSE 1)
  /\ LET code == ApproveGuard(projects, pid, caller) IN
       IF code # 200
       THEN /\ response' = Respond("approveProject", Notified(faults, "approveProject", code))
            /\ audit' = Recorded(faults, "approveProject", code)
            /\ UNCHANGED <<projects, payments>>
       ELSE LET approved == ApprovedProject(projects[pid], caller)
                created == PaymentCreateCode(payments, pid, approved)
            IN IF created # 200
               THEN /\ projects' = [projects EXCEPT ![pid] = approved]
                    /\ response' = Respond("approveProject", Notified(faults, "approveProject", created))
                    /\ audit' = Recorded(faults, "approveProject", created)
                    /\ UNCHANGED payments
               ELSE /\ payments' = payments \o StagePayments(pid, approved, now)
                    /\ projects' = [projects EXCEPT ![pid] =
                          AwaitingInitialPayment(approved, caller)]
                    /\ response' = Respond("approveProject", Notified(faults, "approveProject", 200))
                    /\ audit' = Recorded(faults, "approveProject", 200)
  /\ UNCHANGED now
  /\ AppointmentsUnchanged

\* statuses the model's staff send to updateProjectStatus, while a project is
\* being approved and while its payments are collected; "released" passes
\* the request schema but not the enum of the Project schema
ApprovalStatusInputs == {"approved", "released"}
PaymentStatusInputs == {"pending_midpoint_payment", "pending_final_payment"}

\* part_002 lines 614-638: the new status, its history entry and the dates
\* of fabrication, installation and completion
StatusSet(p, status, caller) ==
  [PushStatus(p, status, caller) EXCEPT
     !.fabricationStartedAt =
        IF status = "in_fabrication" /\ p.status # "in_fabrication"
        THEN now ELSE @,
     !.fabricationCompletedAt =
        IF status = "ready_for_installation" THEN now ELSE @,
     !.fabricationProgress =
        IF status = "ready_for_installation" THEN 100 ELSE @,
     !.installationStartedAt =
        IF status = "in_installation" /\ @ = NoDate THEN now ELSE @,
     !.installationCompletedAt = IF status = "completed" THEN now ELSE @,
     !.actualCompletion = IF status = "completed" THEN now ELSE @]

UpdateStatusGuard(projs, pid, status) ==
  IF status \notin updateProjectStatusSchema THEN 400
  ELSE IF pid \notin 1..Len(projs) THEN 404
  ELSE IF status \notin ProjectStatuses THEN 400
  ELSE 200

updateProjectStatus(pid, status, caller) ==
  /\ pid \in ProjectIds => Room(projects[pid], 1)
  /\ LET code == UpdateStatusGuard(projects, pid, status) IN
       /\ response' = Respond("updateProjectStatus", Notified(faults, "updateProjectStatus", code))
       /\ audit' = Recorded(faults, "updateProjectStatus", code)
       /\ IF code = 200
          THEN projects' = [projects EXCEPT ![pid] =
                              PreSave(StatusSet(@, status, caller))]
          ELSE UNCHANGED projects
  /\ UNCHANGED <<payments, now>>
  /\ AppointmentsUnchanged

\* staffIds of a request body: up to two ids, repeated or not, of active
\* and deactivated fabrication staff and of a user with another role
StaffIdPool == FabricationStaff \cup FormerFabricationStaff \cup Engineers
StaffIdInputs ==
  {<<>>} \cup {<<a>> : a \in StaffIdPool}
         \cup {<<a, b>> : a \in StaffIdPool, b \in StaffIdPool}

\* part_002 lines 682-686: User.find({_id: {$in: staffIds}, role:
\* fabrication_staff, isActive: true}); one document per matching user
FoundStaff(staffIds) ==
  {staffIds[k] : k \in 1..Len(staffIds)} \cap FabricationStaff

\* lines 675-690
AssignFabricationGuard(projs, pid, staffIds) ==
  IF pid \notin 1..Len(projs) THEN 404
  ELSE IF Cardinality(FoundStaff(staffIds)) # Len(staffIds) THEN 404
  ELSE 200

\* part_002 lines 672-708
assignFabricationStaff(pid, staffIds, caller) ==
  /\ LET code == AssignFabricationGuard(projects, pid, staffIds) IN
       /\ response' = Respond("assignFabricationStaff",
                               Notified(faults, "assignFabricationStaff", code))
       /\ audit' = Recorded(faults, "assignFabricationStaff", code)
       /\ IF code = 200
          THEN projects' = [projects EXCEPT ![pid] =
                              PreSave([@ EXCEPT !.fabricationStaff = staffIds])]
          ELSE UNCHANGED projects
  /\ UNCHANGED <<payments, now>>
  /\ AppointmentsUnchanged

\* percentages an admin sends to updatePaymentStages; the last does not sum
\* to 100
PercentageInputs ==
  {[initial |-> 30, midpoint |-> 40, final |-> 30],
   [initial |-> 50, midpoint |-> 25, final |-> 25],
   [initial |-> 33, midpoint |-> 33, final |-> 33]}

\* Payment.updateOne({project, stage}, {'amount.expected': amount}); an
\* undefined amount is stripped from the update
WithExpected(pays, pid, p) ==
  [k \in 1..Len(pays) |->
     IF pays[k].project = pid /\ p.amounts[pays[k].stage] # Undefined
     THEN [pays[k] EXCEPT !.expected = p.amounts[pays[k].stage]]
     ELSE pays[k]]

WithPercentages(p, pct) ==
  LET q == [p EXCEPT !.percentages = pct] IN
    PreSave(IF Truthy(q.costing.approvedAmount)
            THEN [q EXCEPT !.amounts = StageAmounts(q.costing.approvedAmount, pct)]
            ELSE q)

UpdateStagesGuardAnySum(pid, pct) ==
  IF pid \notin ProjectIds THEN 404 ELSE 200

\* lines 497-506: the sum is checked before the project is looked up
UpdateStagesGuard(pid, pct) ==
  IF pct.initial + pct.midpoint + pct.final # 100 THEN 400
  ELSE IF pid \notin ProjectIds THEN 404
  ELSE 200

updatePaymentStages(pid, pct, caller) ==
  /\ LET code == UpdateStagesGuard(pid, pct) IN
       /\ response' = Respond("updatePaymentStages", Notified(faults, "updatePaymentStages", code))
       /\ audit' = Recorded(faults, "updatePaymentStages", code)
       /\ IF code = 200
          THEN /\ projects' = [projects EXCEPT ![pid] = WithPercentages(@, pct)]
               /\ payments' = WithExpected(payments, pid,
                                           WithPercentages(projects[pid], pct))
          ELSE UNCHANGED <<projects, payments>>
  /\ UNCHANGED now
  /\ AppointmentsUnchanged

(***************************************************************************)
(* Payment ledger handlers                                                 *)
(***************************************************************************)
PushPaymentStatusRewrites(pay, status, caller) ==
  [pay EXCEPT !.status = status,
              !.statusHistory = <<HistoryEntry(status, caller)>>]

\* payment.status = ...; payment.statusHistory.push({status, changedBy})
PushPaymentStatus(pay, status, caller) ==
  [pay EXCEPT !.status = status,
              !.statusHistory = Append(@, HistoryEntry(status, caller))]

\* statusHistory entries of the first n payments, over the payments of a
\* project
RECURSIVE PaymentEntries(_, _, _)
PaymentEntries(pays, pid, n) ==
  IF n = 0 THEN 0
  ELSE PaymentEntries(pays, pid, n - 1) +
       (IF pays[n].project = pid THEN Len(pays[n].statusHistory) ELSE 0)

PaymentRoom(pay) ==
  PaymentEntries(payments, pay.project, Len(payments)) < MaxPaymentHistory

SubmitProofGuardIgnoresOwner(pays, id, caller, hasFile) ==
  IF id \notin 1..Len(pays) THEN 404
  ELSE IF pays[id].status = "verified" THEN 400
  ELSE IF ~hasFile THEN 400
  ELSE 200

\* lines 770-787; hasFile: the request carries the uploaded proof (req.file)
SubmitProofGuard(pays, id, caller, hasFile) ==
  IF id \notin 1..Len(pays) THEN 404
  ELSE IF pays[id].customer # caller THEN 403
  ELSE IF pays[id].status = "verified" THEN 400
  ELSE IF ~hasFile THEN 400
  ELSE 200

submitPaymentProof(id, caller, hasFile) ==
  /\ (id \in PaymentIds /\ payments[id].status # "verified")
        => PaymentRoom(payments[id])
  /\ LET code == SubmitProofGuard(payments, id, caller, hasFile) IN
       /\ response' = Respond("submitPaymentProof", Notified(faults, "submitPaymentProof", code))
       /\ audit' = Recorded(faults, "submitPaymentProof", code)
       /\ IF code = 200
          THEN payments' = [payments EXCEPT ![id] =
                  [PushPaymentStatus(@, "submitted", caller) EXCEPT
                      !.proof = TRUE]]
          ELSE UNCHANGED payments
  /\ UNCHANGED <<projects, now>>
  /\ AppointmentsUnchanged

SubmittedGuardAnyStatus(pays, id) ==
  IF id \notin 1..Len(pays) THEN 404 ELSE 200

SubmittedGuardPendingOnly(pays, id) ==
  IF id \notin 1..Len(pays) THEN 404
  ELSE IF pays[id].status = "pending" THEN 400
  ELSE 200

\* the guard shared by verifyPayment and rejectPayment
SubmittedGuard(pays, id) ==
  IF id \notin 1..Len(pays) THEN 404
  ELSE IF pays[id].status # "submitted" THEN 400
  ELSE 200

\* Payment.generateReceiptNumber: RMV-RCT-<year><month>-<count + 1>, the
\* count taken over payments that carry a receipt and were created this year
generateReceiptNumber(pays, today) ==
  [year |-> today.year,
   month |-> today.month,
   seq |-> 1 + Cardinality({k \in 1..Len(pays) :
                               /\ pays[k].receipt # NoReceipt
                               /\ pays[k].createdAt.year = today.year})]

\* verifyPayment, lines 841-862
Verified(pay, caller, amountReceived, receiptNumber) ==
  [PushPaymentStatus(pay, "verified", caller) EXCEPT
      !.received = amountReceived,
      !.verifiedBy = caller,
      !.receipt = receiptNumber]

stageStatusMapMidpointCompletes ==
  [initial |-> "initial_payment_verified",
   midpoint |-> "completed",
   final |-> "completed"]

stageStatusMap ==
  [initial |-> "initial_payment_verified",
   midpoint |-> "midpoint_payment_verified",
   final |-> "completed"]

expectedStatuses ==
  [initial |-> "pending_initial_payment",
   midpoint |-> "pending_midpoint_payment",
   final |-> "pending_final_payment"]

\* lines 880-898: the project written when the cascade applies
Advanced(p, stage, caller) ==
  LET q == PushStatus(p, stageStatusMap[stage], caller) IN
    PreSave(IF stage = "initial"
            THEN [PushStatus(q, "in_fabrication", caller) EXCEPT
                    !.fabricationStartedAt = now]
            ELSE q)

CascadeNever(p, stage, caller) == p

CascadeAlways(p, stage, caller) == Advanced(p, stage, caller)

\* lines 879-899
Cascade(p, stage, caller) ==
  IF p.status = expectedStatuses[stage] THEN Advanced(p, stage, caller) ELSE p

\* amounts a cashier enters
ReceivedInputs == {1000}

verifyPayment(id, amountReceived, caller) ==
  /\ (id \in PaymentIds /\ payments[id].status = "submitted")
        => /\ PaymentRoom(payments[id])
           /\ Len(Cascade(projects[payments[id].project], payments[id].stage,
                         caller).statusHistory) <= MaxProjectHistory
  /\ LET code == SubmittedGuard(payments, id) IN
       /\ response' = Respond("verifyPayment", Notified(faults, "verifyPayment", code))
       /\ audit' = Recorded(faults, "verifyPayment", code)
       /\ IF code = 200
          THEN /\ payments' = [payments EXCEPT ![id] =
                     Verified(@, caller, amountReceived,
                              generateReceiptNumber(payments, now))]
               /\ projects' = [projects EXCEPT ![payments[id].project] =
                     Cascade(@, payments[id].stage, caller)]
          ELSE UNCHANGED <<projects, payments>>
  /\ UNCHANGED now
  /\ AppointmentsUnchanged

rejectPayment(id, caller) ==
  /\ (id \in PaymentIds /\ payments[id].status = "submitted")
        => PaymentRoom(payments[id])
  /\ LET code == SubmittedGuard(payments, id) IN
       /\ response' = Respond("rejectPayment", Notified(faults, "rejectPayment", code))
       /\ audit' = Recorded(faults, "rejectPayment", code)
       /\ IF code = 200
          THEN payments' = [payments EXCEPT ![id] =
                  [PushPaymentStatus(@, "rejected", caller) EXCEPT
                      !.rejectedBy = caller]]
          ELSE UNCHANGED payments
  /\ UNCHANGED <<projects, now>>
  /\ AppointmentsUnchanged

\* totalAmount values an engineer uploads (the body is not validated)
TotalAmountInputs == {0, 1005}

\* ids sent as customerId: a customer, a user with another role, no user
CustomerIdInputs == Bookers \cup Staff \cup {NoUser}

\* ids sent as engineerId: an active engineer, a deactivated one, no user
EngineerIdInputs == Engineers \cup FormerEngineers \cup {NoUser}

\* requests name the stored project; the customer's approval requests also
\* name an unknown one
NextLedger ==
  \/ \E c \in CustomerIdInputs, u \in Staff : createProject(c, u)
  \/ \E pid \in ProjectIds, e \in EngineerIdInputs, u \in Staff :
        submitToEngineer(pid, e, u)
  \/ \E pid \in ProjectIds, e \in Engineers :
        UploadRoom(pid, "blueprint", MaxVersions) /\ uploadBlueprint(pid, e)
  \/ \E pid \in ProjectIds, t \in TotalAmountInputs, e \in Engineers :
        UploadRoom(pid, "costing", MaxVersions) /\ uploadCosting(pid, t, e)
  \/ \E pid \in ProjectIds, e \in Engineers : submitForApproval(pid, e)
  \/ \E pid \in ProjectIdInputs, c \in Customers : approveProject(pid, c)
  \/ \E pid \in ProjectIdInputs, c \in Customers : requestRevision(pid, c)
  \/ \E pid \in ProjectIds, st \in ApprovalStatusInputs, u \in Staff :
        updateProjectStatus(pid, st, u)
  \/ \E pid \in ProjectIds, pct \in PercentageInputs, u \in Staff :
        updatePaymentStages(pid, pct, u)

SpecLedger == InitLedger /\ [][NextLedger]_vars

(***************************************************************************)
(* User administration (userController.js)                                 *)
(***************************************************************************)
\* config.roles
Roles ==
  {"customer", "appointment_agent", "sales_staff", "engineer", "cashier",
   "fabrication_staff", "admin"}

\* a role path missing from the request body
NoRole == "undefined"

\* the role of a request body: absent, a configured role, or another string
RoleInputs == {NoRole, "customer", "engineer", "cashier", "manager"}
IsActiveInputs == {"undefined", "true", "false"}
EmailInputs == {"c1", "e1", "e2"}

UserIds == 1..Len(users)

\* lines 72-98: validate(schemas.createUser) answers 400 for a role outside
\* config.roles; the handler refuses the customer role and a known email
CreateUserGuard(us, email, role) ==
  IF role \notin Roles THEN 400
  ELSE IF role = "customer" THEN 400
  ELSE IF \E i \in 1..Len(us) : us[i].email = email THEN 400
  ELSE 201

\* userController.js lines 71-122
createUser(email, role, caller) ==
  /\ LET code == CreateUserGuard(users, email, role) IN
       /\ response' = Respond("createUser", Notified(faults, "createUser", code))
       /\ audit' = Recorded(faults, "createUser", code)
       /\ IF code = 201
          THEN users' = Append(users, [email |-> email, role |-> role,
                                       isActive |-> TRUE])
          ELSE UNCHANGED users
  /\ UNCHANGED <<appointments, active, projects, payments, now, reqs, faults,
                 clock>>

\* lines 160-172: the assignments updateUser makes to the loaded document
UserUpdated(u, role, isActive) ==
  [u EXCEPT
     !.role = IF role # NoRole /\ u.role # "customer" /\ role # "customer"
              THEN role ELSE @,
     !.isActive = IF isActive = "undefined" THEN @ ELSE isActive = "true"]

\* lines 132-137, 174: findById, then save() validates role against the enum
UpdateUserGuard(us, id, role, isActive) ==
  IF id \notin 1..Len(us) THEN 404
  ELSE IF UserUpdated(us[id], role, isActive).role \notin Roles THEN 400
  ELSE 200

\* userController.js lines 129-197; the route validates params only, so the
\* body reaches the handler as sent
updateUser(id, role, isActive, caller) ==
  /\ LET code == UpdateUserGuard(users, id, role, isActive) IN
       /\ response' = Respond("updateUser", Notified(faults, "updateUser", code))
       /\ audit' = Recorded(faults, "updateUser", code)
       /\ IF code = 200
          THEN users' = [users EXCEPT ![id] = UserUpdated(@, role, isActive)]
          ELSE UNCHANGED users
  /\ UNCHANGED <<appointments, active, projects, payments, now, reqs, faults,
                 clock>>

NextUsers ==
  \/ \E e \in EmailInputs, r \in RoleInputs, u \in Staff : createUser(e, r, u)
  \/ \E id \in UserIds, r \in RoleInputs, a \in IsActiveInputs, u \in Staff :
        updateUser(id, r, a, u)

SpecUsers == Init /\ [][NextUsers]_vars

(***************************************************************************)
(* Staffing a project                                                      *)
(***************************************************************************)
NextAssign ==
  \/ \E c \in CustomerIdInputs, u \in Staff : createProject(c, u)
  \/ \E pid \in ProjectIds, e \in EngineerIdInputs, u \in Staff :
        submitToEngineer(pid, e, u)
  \/ \E pid \in ProjectIds, e \in Engineers :
        UploadRoom(pid, "blueprint", MaxVersions) /\ uploadBlueprint(pid, e)
  \/ \E pid \in ProjectIds, ids \in StaffIdInputs, u \in Staff :
        assignFabricationStaff(pid, ids, u)
  \/ Tick

SpecAssign == InitLedger /\ [][NextAssign]_vars

(***************************************************************************)
(* The status override while time passes                                   *)
(***************************************************************************)
\* statuses staff send: the four with side effects and one that only the
\* request schema knows
StatusOverrideInputs ==
  {"in_fabrication", "ready_for_installation", "in_installation", "completed",
   "released"}

NextStatus ==
  \/ \E c \in Bookers, u \in Staff : createProject(c, u)
  \/ \E pid \in ProjectIds, st \in StatusOverrideInputs, u \in Staff :
        updateProjectStatus(pid, st, u)
  \/ Tick

SpecStatus == InitLedger /\ [][NextStatus]_vars

(***************************************************************************)
(* Repeated uploads of blueprint and costing versions                      *)
(***************************************************************************)
NextUploads ==
  \/ \E c \in Bookers, u \in Staff : createProject(c, u)
  \/ \E pid \in ProjectIdInputs, e \in Engineers :
        UploadRoom(pid, "blueprint", MaxUploads) /\ uploadBlueprint(pid, e)
  \/ \E pid \in ProjectIdInputs, t \in TotalAmountInputs, e \in Engineers :
        UploadRoom(pid, "costing", MaxUploads) /\ uploadCosting(pid, t, e)

SpecUploads == InitLedger /\ [][NextUploads]_vars

(***************************************************************************)
(* Collecting the payments of an approved project.  The initial state is   *)
(* the one approveProject leaves: blueprint and costing uploaded,          *)
(* submitted, approved by the customer.                                    *)
(***************************************************************************)
ProjectAwaitingApproval(totalAmount) ==
  SubmittedForApproval(
     WithCosting(WithBlueprint(NewProject("c1", "admin"), "eng"), totalAmount), "eng")

ProjectAtApproval == ApprovedProject(ProjectAwaitingApproval(1005), "c1")

InitPayments ==
  /\ appointments = <<>>
  /\ active = SalesStaff
  /\ projects = <<AwaitingInitialPayment(ProjectAtApproval, "c1")>>
  /\ payments = StagePayments(1, ProjectAtApproval, TimeLine[1])
  /\ now = TimeLine[1]
  /\ response = Respond("approveProject", 200)
  /\ audit = ActivityOf("approveProject")
  /\ faults = {}
  /\ clock = 0
  /\ reqs = <<>>
  /\ users = RegisteredUsers

\* requests name the stored project and its payments
NextPayments ==
  \/ \E pid \in ProjectIds, st \in PaymentStatusInputs, u \in Staff :
        updateProjectStatus(pid, st, u)
  \/ \E id \in PaymentIds, c \in Customers, f \in BOOLEAN :
        submitPaymentProof(id, c, f)
  \/ \E id \in PaymentIds, a \in ReceivedInputs, u \in Cashiers :
        verifyPayment(id, a, u)
  \/ \E id \in PaymentIds, u \in Cashiers : rejectPayment(id, u)

SpecPayments == InitPayments /\ [][NextPayments]_vars

(***************************************************************************)
(* A project with payments costed and approved again                       *)
(***************************************************************************)
\* totalAmount of a costing uploaded after the approval
RevisedAmountInputs == {2000}

NextReapproval ==
  \/ \E pid \in ProjectIds, t \in RevisedAmountInputs, e \in Engineers :
        UploadRoom(pid, "costing", MaxUploads) /\ uploadCosting(pid, t, e)
  \/ \E pid \in ProjectIds, e \in Engineers : submitForApproval(pid, e)
  \/ \E pid \in ProjectIds, u \in Staff :
        updateProjectStatus(pid, "pending_customer_approval", u)
  \/ \E pid \in ProjectIds, c \in Customers : approveProject(pid, c)
  \/ \E pid \in ProjectIds, pct \in PercentageInputs, u \in Staff :
        updatePaymentStages(pid, pct, u)

SpecReapproval == InitPayments /\ [][NextReapproval]_vars

(***************************************************************************)
(* Appointments, a project and its payments side by side                   *)
(***************************************************************************)
NextHistory ==
  \/ \E c \in Bookers, t \in CancelTimestamps, ty \in AppointmentTypes :
        createAppointment(c, t, ty)
  \/ \E id \in ApptIds, u \in Customers : cancelAppointment(id, u)
  \/ \E c \in Customers : submitPaymentProof(1, c, TRUE)
  \/ \E a \in ReceivedInputs, u \in Cashiers : verifyPayment(1, a, u)
  \/ \E u \in Cashiers : rejectPayment(1, u)

SpecHistory == InitPayments /\ [][NextHistory]_vars

\* the same handlers while the calendar advances past the year in which the
\* payments were created
NextReceipts ==
  \/ Tick
  \/ \E pid \in ProjectIdInputs, st \in PaymentStatusInputs, u \in Staff :
        updateProjectStatus(pid, st, u)
  \/ \E id \in PaymentIdInputs, c \in Customers, f \in BOOLEAN :
        submitPaymentProof(id, c, f)
  \/ \E id \in PaymentIdInputs, a \in ReceivedInputs, u \in Cashiers :
        verifyPayment(id, a, u)
  \/ \E id \in PaymentIdInputs, u \in Cashiers : rejectPayment(id, u)

SpecReceipts == InitPayments /\ [][NextReceipts]_vars

(***************************************************************************)
(* Step specification of approveProject and verifyPayment: each await of   *)
(* a handler is one step and steps of different requests interleave; the   *)
(* model keeps one request of each handler in flight.  A project waits for *)
(* the customer's approval in the initial state.                           *)
(***************************************************************************)
InitSteps ==
  /\ appointments = <<>>
  /\ active = SalesStaff
  /\ \E t \in TotalAmountInputs : projects = <<ProjectAwaitingApproval(t)>>
  /\ payments = <<>>
  /\ now = TimeLine[1]
  /\ response = Respond("submitForApproval", 200)
  /\ audit = ActivityOf("submitForApproval")
  /\ faults = {}
  /\ clock = 0
  /\ reqs = [r \in ReqIds |-> Idle]
  /\ users = RegisteredUsers

\* document.save(): $set of the paths changed since the document was loaded
\* and $push of the entries added to statusHistory
SavedProject(stored, loaded, doc) ==
  [stored EXCEPT
     !.status = IF doc.status # loaded.status THEN doc.status ELSE @,
     !.isApproved = IF doc.isApproved # loaded.isApproved THEN doc.isApproved ELSE @,
     !.costing.approvedAmount =
        IF doc.costing.approvedAmount # loaded.costing.approvedAmount
        THEN doc.costing.approvedAmount ELSE @,
     !.amounts = IF doc.amounts # loaded.amounts THEN doc.amounts ELSE @,
     !.fabricationStartedAt =
        IF doc.fabricationStartedAt # loaded.fabricationStartedAt
        THEN doc.fabricationStartedAt ELSE @,
     !.statusHistory =
        @ \o SubSeq(doc.statusHistory, Len(loaded.statusHistory) + 1,
                    Len(doc.statusHistory))]

SavedPayment(stored, loaded, doc) ==
  [stored EXCEPT
     !.status = IF doc.status # loaded.status THEN doc.status ELSE @,
     !.received = IF doc.received # loaded.received THEN doc.received ELSE @,
     !.verifiedBy = IF doc.verifiedBy # loaded.verifiedBy THEN doc.verifiedBy ELSE @,
     !.rejectedBy = IF doc.rejectedBy # loaded.rejectedBy THEN doc.rejectedBy ELSE @,
     !.receipt = IF doc.receipt # loaded.receipt THEN doc.receipt ELSE @,
     !.proof = IF doc.proof # loaded.proof THEN doc.proof ELSE @,
     !.statusHistory =
        @ \o SubSeq(doc.statusHistory, Len(loaded.statusHistory) + 1,
                    Len(doc.statusHistory))]

StepsFrame == UNCHANGED <<appointments, active, now, faults, clock, users>>

\* approveProject, lines 455-486: findById, the guards, the approval set on
\* the loaded document
loadForApproval(r, pid, caller) ==
  /\ reqs[r].op = "idle"
  /\ \A q \in ReqIds : reqs[q].op # "approveProject"
  /\ LET code == ApproveGuard(projects, pid, caller) IN
       IF code # 200
       THEN /\ response' = Respond("approveProject", Notified(faults, "approveProject", code))
            /\ audit' = Recorded(faults, "approveProject", code)
            /\ UNCHANGED reqs
       ELSE /\ reqs' = [reqs EXCEPT ![r] =
                 [Idle EXCEPT !.op = "approveProject", !.pc = "saveApproved",
                              !.id = pid, !.customer = caller,
                              !.loaded = <<projects[pid]>>,
                              !.doc = <<ApprovedProject(projects[pid], caller)>>]]
            /\ UNCHANGED <<response, audit>>
  /\ UNCHANGED <<projects, payments>>
  /\ StepsFrame

\* line 488: the first save
saveApproved(r) ==
  /\ reqs[r].op = "approveProject" /\ reqs[r].pc = "saveApproved"
  /\ projects' = [projects EXCEPT ![reqs[r].id] =
        SavedProject(@, reqs[r].loaded[1], reqs[r].doc[1])]
  /\ reqs' = [reqs EXCEPT ![r].pc = "create", ![r].loaded = reqs[r].doc]
  /\ UNCHANGED <<payments, response, audit>>
  /\ StepsFrame

\* lines 491-519: Payment.create of the three stage documents
createStagePayments(r) ==
  /\ reqs[r].op = "approveProject" /\ reqs[r].pc = "create"
  /\ LET code == PaymentCreateCode(payments, reqs[r].id, reqs[r].doc[1]) IN
       IF code # 200
       THEN /\ response' = Respond("approveProject", Notified(faults, "approveProject", code))
            /\ audit' = Recorded(faults, "approveProject", code)
            /\ reqs' = [reqs EXCEPT ![r] = Idle]
            /\ UNCHANGED payments
       ELSE /\ payments' = payments \o StagePayments(reqs[r].id, reqs[r].doc[1], now)
            /\ reqs' = [reqs EXCEPT ![r].pc = "saveAwaiting"]
            /\ UNCHANGED <<response, audit>>
  /\ UNCHANGED projects
  /\ StepsFrame

\* lines 522-528: the second save
saveAwaitingPayment(r) ==
  /\ reqs[r].op = "approveProject" /\ reqs[r].pc = "saveAwaiting"
  /\ projects' = [projects EXCEPT ![reqs[r].id] =
        SavedProject(@, reqs[r].loaded[1],
                     AwaitingInitialPayment(reqs[r].doc[1], reqs[r].customer))]
  /\ reqs' = [reqs EXCEPT ![r] = Idle]
  /\ response' = Respond("approveProject", Notified(faults, "approveProject", 200))
  /\ audit' = Recorded(faults, "approveProject", 200)
  /\ UNCHANGED payments
  /\ StepsFrame

\* submitPaymentProof has one write; it runs between the steps of the others
proofSubmitted(id, caller) ==
  /\ submitPaymentProof(id, caller, TRUE)
  /\ \A r \in ReqIds : reqs[r].op # "verifyPayment" \/ reqs[r].id # id

\* rejectPayment has one write; it runs between the steps of verifyPayment,
\* also on the payment that request has loaded
paymentRejected(id, caller) == rejectPayment(id, caller)

\* verifyPayment, lines 829-853: findById and the status guard
loadPayment(r, id, amountReceived, caller) ==
  /\ reqs[r].op = "idle"
  /\ LET code == SubmittedGuard(payments, id) IN
       IF code # 200
       THEN /\ response' = Respond("verifyPayment", Notified(faults, "verifyPayment", code))
            /\ audit' = Recorded(faults, "verifyPayment", code)
            /\ UNCHANGED reqs
       ELSE /\ reqs' = [reqs EXCEPT ![r] =
                 [Idle EXCEPT !.op = "verifyPayment", !.pc = "count",
                              !.id = id, !.customer = caller,
                              !.amount = amountReceived,
                              !.loaded = <<payments[id]>>]]
            /\ UNCHANGED <<response, audit>>
  /\ UNCHANGED <<projects, payments>>
  /\ StepsFrame

\* lines 856-860: generateReceiptNumber counts the stored receipts
countReceipts(r) ==
  /\ reqs[r].op = "verifyPayment" /\ reqs[r].pc = "count"
  /\ reqs' = [reqs EXCEPT
        ![r].pc = "savePayment",
        ![r].doc = <<Verified(reqs[r].loaded[1], reqs[r].customer, reqs[r].amount,
                              generateReceiptNumber(payments, now))>>]
  /\ UNCHANGED <<projects, payments, response, audit>>
  /\ StepsFrame

\* line 862: payment.save()
savePayment(r) ==
  /\ reqs[r].op = "verifyPayment" /\ reqs[r].pc = "savePayment"
  /\ payments' = [payments EXCEPT ![reqs[r].id] =
        SavedPayment(@, reqs[r].loaded[1], reqs[r].doc[1])]
  /\ reqs' = [reqs EXCEPT ![r].pc = "loadProject"]
  /\ UNCHANGED <<projects, response, audit>>
  /\ StepsFrame

\* lines 865-896: Project.findById and the cascade on the loaded document
loadProject(r) ==
  /\ reqs[r].op = "verifyPayment" /\ reqs[r].pc = "loadProject"
  /\ LET p == projects[payments[reqs[r].id].project] IN
       reqs' = [reqs EXCEPT
          ![r].pc = "saveProject",
          ![r].loaded = <<p>>,
          ![r].doc = <<Cascade(p, payments[reqs[r].id].stage, reqs[r].customer)>>]
  /\ UNCHANGED <<projects, payments, response, audit>>
  /\ StepsFrame

\* lines 898-926: project.save() when the cascade applied, then the response
saveProject(r) ==
  /\ reqs[r].op = "verifyPayment" /\ reqs[r].pc = "saveProject"
  /\ projects' = [projects EXCEPT ![payments[reqs[r].id].project] =
        SavedProject(@, reqs[r].loaded[1], reqs[r].doc[1])]
  /\ reqs' = [reqs EXCEPT ![r] = Idle]
  /\ response' = Respond("verifyPayment", Notified(faults, "verifyPayment", 200))
  /\ audit' = Recorded(faults, "verifyPayment", 200)
  /\ UNCHANGED payments
  /\ StepsFrame

NextSteps ==
  \/ \E r \in ReqIds, pid \in ProjectIdInputs, c \in Customers :
        loadForApproval(r, pid, c)
  \/ \E r \in ReqIds : saveApproved(r)
  \/ \E r \in ReqIds : createStagePayments(r)
  \/ \E r \in ReqIds : saveAwaitingPayment(r)
  \/ \E id \in PaymentIdInputs, c \in Customers : proofSubmitted(id, c)
  \/ \E id \in PaymentIdInputs, u \in Cashiers : paymentRejected(id, u)
  \/ \E r \in ReqIds, id \in PaymentIdInputs, a \in ReceivedInputs, u \in Cashiers :
        (\A q \in ReqIds : reqs[q].op # "verifyPayment") /\ loadPayment(r, id, a, u)
  \/ \E r \in ReqIds : countReceipts(r)
  \/ \E r \in ReqIds : savePayment(r)
  \/ \E r \in ReqIds : loadProject(r)
  \/ \E r \in ReqIds : saveProject(r)

SpecSteps == InitSteps /\ [][NextSteps]_vars

\* rejectPayment, lines 933-951: findById, the status guard and the rejection
\* set on the loaded document
loadRejection(r, id, caller) ==
  /\ reqs[r].op = "idle"
  /\ LET code == SubmittedGuard(payments, id) IN
       IF code # 200
       THEN /\ response' = Respond("rejectPayment", Notified(faults, "rejectPayment", code))
            /\ audit' = Recorded(faults, "rejectPayment", code)
            /\ UNCHANGED reqs
       ELSE /\ reqs' = [reqs EXCEPT ![r] =
                 [Idle EXCEPT !.op = "rejectPayment", !.pc = "saveRejected",
                              !.id = id, !.customer = caller,
                              !.loaded = <<payments[id]>>,
                              !.doc = <<[PushPaymentStatus(payments[id], "rejected", caller)
                                           EXCEPT !.rejectedBy = caller]>>]]
            /\ UNCHANGED <<response, audit>>
  /\ UNCHANGED <<projects, payments>>
  /\ StepsFrame

\* line 959: payment.save(), then the response
saveRejected(r) ==
  /\ reqs[r].op = "rejectPayment" /\ reqs[r].pc = "saveRejected"
  /\ payments' = [payments EXCEPT ![reqs[r].id] =
        SavedPayment(@, reqs[r].loaded[1], reqs[r].doc[1])]
  /\ reqs' = [reqs EXCEPT ![r] = Idle]
  /\ response' = Respond("rejectPayment", Notified(faults, "rejectPayment", 200))
  /\ audit' = Recorded(faults, "rejectPayment", 200)
  /\ UNCHANGED projects
  /\ StepsFrame

(***************************************************************************)
(* Two cashier requests in flight on the payments of an approved project   *)
(***************************************************************************)
InitVerify ==
  /\ appointments = <<>>
  /\ active = SalesStaff
  /\ projects = <<AwaitingInitialPayment(ProjectAtApproval, "c1")>>
  /\ payments = StagePayments(1, ProjectAtApproval, TimeLine[1])
  /\ now = TimeLine[1]
  /\ response = Respond("approveProject", 200)
  /\ audit = ActivityOf("approveProject")
  /\ faults = {}
  /\ clock = 0
  /\ reqs = [r \in ReqIds |-> Idle]
  /\ users = RegisteredUsers

\* the requests name the payment of the initial stage
NextVerify ==
  \/ \E c \in Bookers : proofSubmitted(1, c)
  \/ \E r \in ReqIds, a \in ReceivedInputs, u \in Cashiers :
        loadPayment(r, 1, a, u)
  \/ \E r \in ReqIds, u \in Cashiers : loadRejection(r, 1, u)
  \/ \E r \in ReqIds : saveRejected(r)
  \/ \E r \in ReqIds : countReceipts(r)
  \/ \E r \in ReqIds : savePayment(r)
  \/ \E r \in ReqIds : loadProject(r)
  \/ \E r \in ReqIds : saveProject(r)

SpecVerify == InitVerify /\ [][NextVerify]_vars

\* C8: no state shows the primary mutation of approveProject or
\* verifyPayment without the secondary one: a project in status approved or
\* later has its three payments, and no payment is verified while its project
\* still waits in the expected predecessor status.
NoHalfAppliedOperation ==
  /\ \A pid \in ProjectIds :
       projects[pid].status \in
          {"approved", "pending_initial_payment", "initial_payment_verified",
           "in_fabrication", "pending_midpoint_payment",
           "midpoint_payment_verified", "ready_for_installation",
           "in_installation", "pending_final_payment", "completed"}
         => Cardinality(PaymentsOf(payments, pid)) = 3
  /\ \A k \in PaymentIds :
       payments[k].status = "verified"
         => projects[payments[k].project].status #
               (CASE payments[k].stage = "initial" -> "pending_initial_payment"
                  [] payments[k].stage = "midpoint" -> "pending_midpoint_payment"
                  [] OTHER -> "pending_final_payment")

\* C3: every project has no payment or exactly three, one per stage, and it
\* has them exactly when approveProject has succeeded on it (its second save
\* is the only write of a pending_initial_payment entry by the customer).
PaymentsPerProject ==
  /\ \A k \in PaymentIds : payments[k].project \in ProjectIds
  /\ \A pid \in ProjectIds :
       LET ps == PaymentsOf(payments, pid)
           h == projects[pid].statusHistory
       IN /\ \/ ps = {}
             \/ /\ Cardinality(ps) = 3
                /\ \A st \in Stages :
                     Cardinality({k \in ps : payments[k].stage = st}) = 1
          /\ ps # {} <=>
               \E i \in 1..Len(h) :
                  h[i] = HistoryEntry("pending_initial_payment", projects[pid].customer)

\* a second approveProject ran into the unique index on a project that
\* already has its three payments
RepeatedApprovalKeepsThree ==
  /\ response = Respond("approveProject", 400)
  /\ \E pid \in ProjectIds :
       /\ Cardinality(PaymentsOf(payments, pid)) = 3
       /\ Cardinality({i \in 1..Len(projects[pid].statusHistory) :
             projects[pid].statusHistory[i].status = "approved"}) = 2

\* C4: whenever approvedAmount is set the stage amounts are the rounded
\* percentages with the remainder on the final stage, so they sum to it; for
\* 100000 at 30/40/30 they are 30000/40000/30000.
StageAmountsSumToApproved ==
  /\ StageAmounts(100000, defaultPercentages) =
        [initial |-> 30000, midpoint |-> 40000, final |-> 30000]
  /\ \A pid \in ProjectIds :
       LET p == projects[pid]
           total == p.costing.approvedAmount
       IN total # Undefined =>
            /\ p.amounts.initial = (total * p.percentages.initial + 50) \div 100
            /\ p.amounts.midpoint = (total * p.percentages.midpoint + 50) \div 100
            /\ p.amounts.final = total - p.amounts.initial - p.amounts.midpoint
            /\ p.amounts.initial + p.amounts.midpoint + p.amounts.final = total

\* C9: an operation that ends in an error leaves every appointment, project
\* and payment as it was.
ErrorsLeaveStateUnchanged ==
  [][response'.code \notin {200, 201}
       => UNCHANGED <<appointments, projects, payments>>]_vars

\* C5: verifyPayment on a verified payment answers 400 and changes neither the
\* payment (receipt, amount received, verification, statusHistory) nor the
\* project.
VerifyVerifiedRejected ==
  [][\A id \in PaymentIds, a \in ReceivedInputs, u \in Cashiers :
        (payments[id].status = "verified" /\ verifyPayment(id, a, u))
           => /\ response'.code = 400
              /\ payments' = payments
              /\ projects' = projects]_vars

\* every payment is verified and a further verifyPayment was refused
VerifyRefusedOnVerified ==
  /\ \A id \in PaymentIds : payments[id].status = "verified"
  /\ PaymentIds # {}
  /\ response = Respond("verifyPayment", 400)

\* C6: a receipt issued in a year carries a sequence number above that of
\* every receipt issued earlier in that year, so receipt numbers of one year
\* are pairwise distinct.
ReceiptsIncreaseWithinYear ==
  [][\A id \in PaymentIds :
        (id \in 1..Len(payments') /\ payments'[id].receipt # payments[id].receipt)
           => \A k \in PaymentIds \ {id} :
                 (/\ payments[k].receipt # NoReceipt
                  /\ payments[k].receipt.year = payments'[id].receipt.year)
                    => payments[k].receipt.seq < payments'[id].receipt.seq]_vars

\* C7: a successful verifyPayment changes the project's status exactly when
\* the status is the expected predecessor of the payment's stage; final in
\* pending_final_payment gives completed; otherwise the payment is verified
\* and the project keeps status and statusHistory.
CascadeIffExpected ==
  [][\A id \in PaymentIds, a \in ReceivedInputs, u \in Cashiers :
        (verifyPayment(id, a, u) /\ response'.code = 200)
           => LET pid == payments[id].project
                  stage == payments[id].stage
                  expected == [initial |-> "pending_initial_payment",
                               midpoint |-> "pending_midpoint_payment",
                               final |-> "pending_final_payment"]
              IN /\ projects'[pid].status # projects[pid].status
                      <=> projects[pid].status = expected[stage]
                 /\ (stage = "final" /\ projects[pid].status = "pending_final_payment")
                      => projects'[pid].status = "completed"
                 /\ projects[pid].status # expected[stage]
                      => /\ payments'[id].status = "verified"
                         /\ projects'[pid].status = projects[pid].status
                         /\ projects'[pid].statusHistory = projects[pid].statusHistory]_vars

\* the initial payment was verified while the project waited for the final
\* payment (no cascade), then the final payment completed the project
FinalCompletesInitialIgnored ==
  \E i, f \in PaymentIds :
     /\ payments[i].stage = "initial" /\ payments[i].status = "verified"
     /\ payments[f].stage = "final" /\ payments[f].status = "verified"
     /\ projects[payments[f].project].status = "completed"
     /\ \A n \in 1..Len(projects[payments[f].project].statusHistory) :
           projects[payments[f].project].statusHistory[n].status # "in_fabrication"

\* C11: a verified payment keeps its status and a generated receipt is never
\* modified; a payment's status moves only pending to submitted, submitted to
\* verified or rejected, and rejected back to submitted.  It holds when the
\* handlers run one after another (SpecPayments) and fails when a rejection is
\* written between the load and the save of verifyPayment (SpecSteps).
PaymentStatusMoves ==
  [][\A id \in PaymentIds :
        id \in 1..Len(payments') =>
          /\ payments[id].status = "verified"
                => payments'[id].status = "verified"
          /\ payments[id].receipt # NoReceipt
                => payments'[id].receipt = payments[id].receipt
          /\ payments'[id].status # payments[id].status
                => <<payments[id].status, payments'[id].status>> \in
                      {<<"pending", "submitted">>, <<"submitted", "verified">>,
                       <<"submitted", "rejected">>, <<"rejected", "submitted">>}]_vars

\* C17: rejectPayment succeeds exactly on a submitted payment, which becomes
\* rejected with the rejection metadata; on a pending, rejected or verified
\* payment it answers 400 and changes nothing; the project is never changed.
RejectOnlySubmitted ==
  [][response'.op = "rejectPayment" =>
      \A id \in PaymentIds, u \in Cashiers :
        rejectPayment(id, u) =>
          /\ projects' = projects
          /\ IF payments[id].status = "submitted"
             THEN /\ response'.code = 200
                  /\ payments'[id].status = "rejected"
                  /\ payments'[id].rejectedBy = u
                  /\ \A k \in PaymentIds \ {id} : payments'[k] = payments[k]
             ELSE /\ response'.code = 400
                  /\ payments' = payments]_vars

\* a payment was rejected by the cashier and a second rejection was refused
RejectedThenRefused ==
  /\ \E id \in PaymentIds :
        payments[id].status = "rejected" /\ payments[id].rejectedBy \in Cashiers
  /\ \A id \in PaymentIds : payments[id].status # "submitted"
  /\ response = Respond("rejectPayment", 400)

\* C18: submitPaymentProof succeeds only for the payment's customer on a
\* payment that is not verified, and then sets status submitted with the proof
\* attached; for another caller or a verified payment it fails and the payment
\* is unchanged.
ProofOnlyByOwnerUnlessVerified ==
  [][response'.op = "submitPaymentProof" =>
      \A id \in PaymentIds, c \in Customers, f \in BOOLEAN :
        (/\ response'.code = SubmitProofGuard(payments, id, c, f)
         /\ submitPaymentProof(id, c, f)) =>
          /\ response'.code = 200
                => /\ payments[id].customer = c
                   /\ payments[id].status # "verified"
                   /\ payments'[id].status = "submitted"
                   /\ payments'[id].proof
          /\ (payments[id].customer # c \/ payments[id].status = "verified")
                => /\ response'.code \in {400, 403}
                   /\ payments' = payments]_vars

\* every payment is verified and a further proof was refused
ProofRefusedOnVerified ==
  /\ PaymentIds # {}
  /\ \A id \in PaymentIds : payments[id].status = "verified"
  /\ response = Respond("submitPaymentProof", 400)

StageVerified(pays, pid, stage) ==
  \E k \in 1..Len(pays) :
     /\ pays[k].project = pid
     /\ pays[k].stage = stage
     /\ pays[k].status = "verified"

StatedGraph ==
  {<<"draft", "pending_blueprint">>,
   <<"pending_blueprint", "pending_customer_approval">>,
   <<"pending_customer_approval", "approved">>,
   <<"pending_customer_approval", "revision_requested">>,
   <<"revision_requested", "pending_blueprint">>,
   <<"approved", "pending_initial_payment">>,
   <<"pending_initial_payment", "in_fabrication">>,
   <<"in_fabrication", "pending_midpoint_payment">>,
   <<"pending_midpoint_payment", "ready_for_installation">>,
   <<"ready_for_installation", "in_installation">>,
   <<"in_installation", "pending_final_payment">>,
   <<"pending_final_payment", "completed">>}

\* C13: every status an operation other than updateProjectStatus writes to a
\* project follows an edge of the stated graph from the status before it
\* (approveProject writes two statuses, each along an edge).
StatusChangesFollowGraph ==
  [][response'.op # "updateProjectStatus" =>
      \A pid \in ProjectIds :
         pid \in 1..Len(projects') =>
           \A n \in (Len(projects[pid].statusHistory) + 1)
                      ..Len(projects'[pid].statusHistory) :
              <<IF n = Len(projects[pid].statusHistory) + 1
                THEN projects[pid].status
                ELSE projects'[pid].statusHistory[n - 1].status,
                projects'[pid].statusHistory[n].status>> \in StatedGraph]_vars

\* C14: approveProject and requestRevision succeed only for the project's own
\* customer on a project in pending_customer_approval; otherwise they fail,
\* the project is unchanged and no payment is created.  A successful
\* approveProject sets approvedAmount to the latest costing total, creates
\* the three pending payments with the stage amounts as expected amounts and
\* appends approved then pending_initial_payment.
ApprovalOnlyByOwnerWhenPending ==
  [][response'.op \in {"approveProject", "requestRevision"} =>
      \A pid \in ProjectIdInputs, c \in Customers :
         LET allowed == /\ pid \in ProjectIds
                        /\ projects[pid].customer = c
                        /\ projects[pid].status = "pending_customer_approval"
         IN
         /\ (approveProject(pid, c) \/ requestRevision(pid, c)) =>
               /\ response'.code = 200 => allowed
               /\ ~allowed => /\ response'.code # 200
                              /\ projects' = projects
                              /\ payments' = payments
         /\ (requestRevision(pid, c) /\ response'.code = 200) =>
               /\ projects'[pid].status = "revision_requested"
               /\ payments' = payments
         /\ (approveProject(pid, c) /\ response'.code = 200) =>
               LET p == projects[pid]
                   q == projects'[pid]
                   n == Len(p.statusHistory)
               IN /\ q.costing.approvedAmount =
                        p.costing.versions[Len(p.costing.versions)].totalAmount
                  /\ q.status = "pending_initial_payment"
                  /\ Len(q.statusHistory) = n + 2
                  /\ SubSeq(q.statusHistory, 1, n) = p.statusHistory
                  /\ q.statusHistory[n + 1].status = "approved"
                  /\ q.statusHistory[n + 2].status = "pending_initial_payment"
                  /\ Len(payments') = Len(payments) + 3
                  /\ SubSeq(payments', 1, Len(payments)) = payments
                  /\ \A st \in Stages :
                        \E k \in (Len(payments) + 1)..Len(payments') :
                           /\ payments'[k].project = pid
                           /\ payments'[k].stage = st
                           /\ payments'[k].status = "pending"
                           /\ payments'[k].expected = q.amounts[st]]_vars

\* the owner's approval went through: the amount is snapshotted, the project
\* waits for the initial payment and its payments are pending
ApprovedByOwner ==
  /\ response = Respond("approveProject", 200)
  /\ \E pid \in ProjectIds :
        /\ projects[pid].status = "pending_initial_payment"
        /\ projects[pid].costing.approvedAmount = 1005
        /\ \A st \in Stages :
              \E k \in PaymentIds :
                 /\ payments[k].project = pid
                 /\ payments[k].stage = st
                 /\ payments[k].status = "pending"
                 /\ payments[k].expected = projects[pid].amounts[st]

\* staff member s has an appointment at date that is neither cancelled nor
\* no_show, other than appointment exceptId
Busy(s, date, exceptId) ==
  \E i \in ApptIds \ {exceptId} :
     /\ appointments[i].assignedSalesStaff = s
     /\ appointments[i].scheduledDate = date
     /\ appointments[i].status \notin {"cancelled", "no_show"}

\* C16: booking an ocular_visit at t assigns the first active sales staff
\* member in scan order that is not busy at t and creates the appointment
\* scheduled; with no such member it is created pending without staff; an
\* office_consultation is always created pending without staff.
BookingAssignsFirstFree ==
  [][(response'.op = "createAppointment" /\ response'.code = 201) =>
      LET a == appointments'[Len(appointments')]
          free == {k \in 1..Len(SalesStaffList) :
                     /\ SalesStaffList[k] \in active
                     /\ ~Busy(SalesStaffList[k], a.scheduledDate, 0)}
      IN /\ Len(appointments') = Len(appointments) + 1
         /\ SubSeq(appointments', 1, Len(appointments)) = appointments
         /\ IF a.appointmentType = "ocular_visit" /\ free # {}
            THEN /\ \E k \in free :
                      /\ \A j \in free : k <= j
                      /\ a.assignedSalesStaff = SalesStaffList[k]
                 /\ a.status = "scheduled"
            ELSE /\ a.assignedSalesStaff = NoUser
                 /\ a.status = "pending"]_vars

\* with one active staff member, the first ocular visit at a timestamp took
\* that member and the second one at the same timestamp stayed pending
SecondOcularVisitPending ==
  /\ response = Respond("createAppointment", 201)
  /\ Cardinality(active) = 1
  /\ \E i, j \in ApptIds :
        /\ i < j
        /\ appointments[i].appointmentType = "ocular_visit"
        /\ appointments[j].appointmentType = "ocular_visit"
        /\ appointments[i].scheduledDate = appointments[j].scheduledDate
        /\ appointments[i].status = "scheduled"
        /\ appointments[i].assignedSalesStaff \in active
        /\ appointments[j].status = "pending"
        /\ appointments[j].assignedSalesStaff = NoUser

\* C20: assignSalesStaff succeeds exactly when the appointment is pending,
\* the target is an active sales staff member and that member has no other
\* live appointment at the same scheduledDate; then the appointment is
\* scheduled with that member; otherwise the call fails and nothing changes.
AssignOnlyWhenFree ==
  [][response'.op = "assignSalesStaff" =>
      \A id \in ApptIdInputs, s \in AssignTargets, a \in Agents :
         assignSalesStaff(id, s, a) =>
           IF /\ id \in ApptIds
              /\ appointments[id].status = "pending"
              /\ s \in SalesStaff /\ s \in active
              /\ ~Busy(s, appointments[id].scheduledDate, id)
           THEN /\ response'.code = 200
                /\ appointments'[id].status = "scheduled"
                /\ appointments'[id].assignedSalesStaff = s
                /\ \A k \in ApptIds \ {id} : appointments'[k] = appointments[k]
           ELSE /\ response'.code # 200
                /\ appointments' = appointments]_vars

\* an agent assigned a pending appointment to a staff member whose colleague
\* holds another live appointment at the same timestamp
AssignedBesideBusyColleague ==
  /\ response = Respond("assignSalesStaff", 200)
  /\ \E i, j \in ApptIds :
        /\ i # j
        /\ appointments[i].scheduledDate = appointments[j].scheduledDate
        /\ appointments[i].status = "scheduled"
        /\ appointments[i].statusHistory[Len(appointments[i].statusHistory)].changedBy
              \in Agents
        /\ appointments[j].status = "scheduled"
        /\ appointments[j].assignedSalesStaff # appointments[i].assignedSalesStaff

AuditCount(records, resourceType) ==
  Cardinality({n \in 1..Len(records) : records[n].resourceType = resourceType})

\* statusHistory entries a step appends to the documents of a collection
\* that existed before the step
RECURSIVE TransitionCount(_, _, _)
TransitionCount(before, after, n) ==
  IF n = 0 THEN 0
  ELSE TransitionCount(before, after, n - 1) +
       Len(after[n].statusHistory) - Len(before[n].statusHistory)

\* C19: every successful state transition of an appointment, a project or a
\* payment stores exactly one audit record for that aggregate: a request that
\* appends k entries to the status histories of one kind of aggregate stores
\* k records of that resource type.
TransitionsAudited ==
  [][Succeeded(response'.code) =>
     /\ Len(projects') >= Len(projects)
           => LET k == TransitionCount(projects, projects', Len(projects))
              IN k > 0 => AuditCount(audit', "project") = k
     /\ Len(payments') >= Len(payments)
           => LET k == TransitionCount(payments, payments', Len(payments))
              IN k > 0 => AuditCount(audit', "payment") = k
     /\ Len(appointments') >= Len(appointments)
           => LET k == TransitionCount(appointments, appointments',
                                      Len(appointments))
              IN k > 0 => AuditCount(audit', "appointment") = k]_vars

CompleteErrorsAsStated ==
  [][\A id \in ApptIds, s \in SalesStaff :
       (response'.op = "completeAppointment" /\ completeAppointment(id, s))
       => /\ response'.code = 200
             <=> /\ appointments[id].assignedSalesStaff = s
                 /\ appointments[id].status \in
                       {"scheduled", "confirmed", "in_progress"}
          /\ appointments[id].assignedSalesStaff # s => response'.code = 403
          /\ ( /\ appointments[id].assignedSalesStaff = s
               /\ appointments[id].status \notin
                     {"scheduled", "confirmed", "in_progress"} )
             => response'.code = 400
          /\ response'.code # 200 => appointments' = appointments]_vars

\* C23: bookAppointment with an hour-of-day below the configured start or at
\* or above the configured end fails and creates no appointment; an hour
\* inside [start, end) passes the hour check.
BookingHourCheck ==
  [][\A c \in Bookers, t \in Timestamps, ty \in AppointmentTypes :
       (response'.op = "createAppointment" /\ createAppointment(c, t, ty))
       => IF t % 24 < appointmentHoursStart \/ t % 24 >= appointmentHoursEnd
          THEN response'.code = 400 /\ appointments' = appointments
          ELSE /\ response'.code = 201
               /\ Len(appointments') = Len(appointments) + 1
               /\ appointments'[Len(appointments')].scheduledDate = t]_vars

\* a booking refused for its hour after an earlier one was accepted
BookingRefusedOutOfHours ==
  /\ response = Respond("createAppointment", 400)
  /\ appointments # <<>>

\* C24: in every reachable state the three paymentStages percentages of
\* every project sum to 100, and updatePaymentStages with percentages that
\* do not sum to 100 fails and changes neither the project nor any payment.
PercentagesSumTo100 ==
  [][ /\ \A pid \in 1..Len(projects') :
           projects'[pid].percentages.initial
             + projects'[pid].percentages.midpoint
             + projects'[pid].percentages.final = 100
      /\ \A pid \in ProjectIds, pct \in PercentageInputs, u \in Staff :
           ( /\ response'.op = "updatePaymentStages"
             /\ updatePaymentStages(pid, pct, u)
             /\ pct.initial + pct.midpoint + pct.final # 100 )
           => /\ response'.code = 400
              /\ UNCHANGED <<projects, payments>> ]_vars

\* an update refused for its sum on a project whose stages were changed before
StagesChangedThenRefused ==
  /\ response = Respond("updatePaymentStages", 400)
  /\ \E pid \in ProjectIds : projects[pid].percentages.initial = 50

\* dates for which slots are requested: the day of the bookings and the next
SlotDates == {0, 24}

\* C25: for every sales staff member s and every slot start t that
\* getAvailableSlots returns for a date, isAvailable is true exactly when the
\* conflict check of assignSalesStaff for (s, t) finds no conflict; the
\* sequence is finite and covers the business hours in consecutive slots of
\* the fixed duration.
SlotsAgreeWithConflictCheck ==
  \A s \in SalesStaff, d \in SlotDates :
     LET slots == findAvailableSlots(appointments, d, s) IN
       /\ Len(slots) * slotDurationMinutes
            = (appointmentHoursEnd - appointmentHoursStart) * 60
       /\ slots[1].start = startOfDay(d)
       /\ slots[Len(slots)].end = endOfDay(d)
       /\ \A k \in 1..Len(slots) :
            /\ (slots[k].end - slots[k].start) * 60 = slotDurationMinutes
            /\ k < Len(slots) => slots[k + 1].start = slots[k].end
            /\ \A id \in {i \in ApptIdInputs :
                             i \in ApptIds => appointments[i].status = "pending"} :
                 slots[k].isAvailable
                   <=> FindConflict(appointments, s, slots[k].start, id) = {}

\* one staff member is booked in one slot and has a cancelled appointment in
\* another slot, which is offered again
SlotBookedAndSlotFreedByCancel ==
  \E s \in SalesStaff, i, j \in ApptIds :
     /\ appointments[i].assignedSalesStaff = s
     /\ appointments[i].status = "scheduled"
     /\ appointments[j].assignedSalesStaff = s
     /\ appointments[j].status = "cancelled"
     /\ appointments[j].scheduledDate # appointments[i].scheduledDate
     /\ \E k \in 1..Len(findAvailableSlots(appointments, 0, s)) :
          LET slot == findAvailableSlots(appointments, 0, s)[k] IN
            slot.start = appointments[j].scheduledDate /\ slot.isAvailable
     /\ \E k \in 1..Len(findAvailableSlots(appointments, 0, s)) :
          LET slot == findAvailableSlots(appointments, 0, s)[k] IN
            slot.start = appointments[i].scheduledDate /\ ~slot.isAvailable

\* C26: a successful verifyPayment of the initial payment on a project in
\* pending_initial_payment leaves the project in in_fabrication with
\* fabrication.startedAt set, and a successful verifyPayment of the midpoint
\* payment on a project in pending_midpoint_payment advances the project to
\* ready_for_installation.
VerifyAdvancesProject ==
  [][\A id \in PaymentIds, a \in ReceivedInputs, u \in Cashiers :
       ( /\ response'.op = "verifyPayment"
         /\ response'.code = 200
         /\ verifyPayment(id, a, u) )
       => LET pid == payments[id].project IN
            /\ ( /\ payments[id].stage = "initial"
                 /\ projects[pid].status = "pending_initial_payment" )
               => /\ projects'[pid].status = "in_fabrication"
                  /\ projects'[pid].fabricationStartedAt # NoDate
            /\ ( /\ payments[id].stage = "midpoint"
                 /\ projects[pid].status = "pending_midpoint_payment" )
               => projects'[pid].status = "ready_for_installation"]_vars

Numbered(doc) ==
  /\ doc.currentVersion = Len(doc.versions)
  /\ \A k \in 1..Len(doc.versions) : doc.versions[k].version = k

\* an upload added one version to the document and kept the earlier ones
OneVersionAdded(old, new) ==
  /\ new.currentVersion = old.currentVersion + 1
  /\ Len(new.versions) = Len(old.versions) + 1
  /\ SubSeq(new.versions, 1, Len(old.versions)) = old.versions

\* C28: after any sequence of uploadBlueprint and uploadCosting operations,
\* currentVersion equals the number of stored versions and the version
\* numbers are 1..currentVersion in order; each upload increases
\* currentVersion by exactly 1 and changes or removes no earlier entry; the
\* first upload is logged as *_uploaded and every later one as *_revised.
VersionsNumbered ==
  [][\A pid \in 1..Len(projects') :
       /\ Numbered(projects'[pid].blueprint)
       /\ Numbered(projects'[pid].costing)
       /\ (pid \in ProjectIds /\ response' = Respond("uploadBlueprint", 200))
          => /\ OneVersionAdded(projects[pid].blueprint, projects'[pid].blueprint)
             /\ projects'[pid].costing = projects[pid].costing
             /\ audit' = <<ActivityRecord("project",
                             IF projects[pid].blueprint.currentVersion = 0
                             THEN "blueprint_uploaded" ELSE "blueprint_revised")>>
       /\ (pid \in ProjectIds /\ response' = Respond("uploadCosting", 200))
          => /\ OneVersionAdded(projects[pid].costing, projects'[pid].costing)
             /\ projects'[pid].blueprint = projects[pid].blueprint
             /\ audit' = <<ActivityRecord("project",
                             IF projects[pid].costing.currentVersion = 0
                             THEN "costing_uploaded" ELSE "costing_revised")>>]_vars

\* a third blueprint version just logged as a revision, beside two costings
ThirdBlueprintRevised ==
  /\ response = Respond("uploadBlueprint", 200)
  /\ audit = <<ActivityRecord("project", "blueprint_revised")>>
  /\ \E pid \in ProjectIds :
       /\ projects[pid].blueprint.currentVersion = 3
       /\ projects[pid].costing.currentVersion = 2

\* C29: submitForApproval succeeds only when blueprint.currentVersion > 0
\* and costing.currentVersion > 0, and then moves the project to
\* pending_customer_approval; when either is 0 it fails and the project's
\* status and statusHistory are unchanged.
SubmitNeedsBothDocuments ==
  [][\A pid \in ProjectIds, e \in Engineers :
       (response'.op = "submitForApproval" /\ submitForApproval(pid, e))
       => IF /\ projects[pid].blueprint.currentVersion > 0
             /\ projects[pid].costing.currentVersion > 0
          THEN /\ response'.code = 200
               /\ projects'[pid].status = "pending_customer_approval"
          ELSE /\ response'.code = 400
               /\ projects'[pid].status = projects[pid].status
               /\ projects'[pid].statusHistory = projects[pid].statusHistory]_vars

\* a submission refused on a project with a blueprint and no costing
SubmitRefusedWithoutCosting ==
  /\ response = Respond("submitForApproval", 400)
  /\ \E pid \in ProjectIds :
       /\ projects[pid].blueprint.currentVersion > 0
       /\ projects[pid].costing.currentVersion = 0
       /\ projects[pid].status # "pending_customer_approval"

OverrideAcceptsEnumerated ==
  [][\A pid \in ProjectIds, st \in StatusOverrideInputs, u \in Staff :
       (response'.op = "updateProjectStatus" /\ updateProjectStatus(pid, st, u))
       => LET p == projects[pid]
              q == projects'[pid]
          IN /\ response'.code = 200
             /\ q.status = st
             /\ q.fabricationStartedAt =
                  IF st = "in_fabrication" /\ p.status # "in_fabrication"
                  THEN now ELSE p.fabricationStartedAt
             /\ q.fabricationCompletedAt =
                  IF st = "ready_for_installation"
                  THEN now ELSE p.fabricationCompletedAt
             /\ q.fabricationProgress =
                  IF st = "ready_for_installation"
                  THEN 100 ELSE p.fabricationProgress
             /\ q.installationStartedAt =
                  IF st = "in_installation" /\ p.installationStartedAt = NoDate
                  THEN now ELSE p.installationStartedAt
             /\ q.installationCompletedAt =
                  IF st = "completed" THEN now ELSE p.installationCompletedAt
             /\ q.actualCompletion =
                  IF st = "completed" THEN now ELSE p.actualCompletion]_vars

\* the entries a step added to a statusHistory
Appended(old, new) ==
  SubSeq(new.statusHistory, Len(old.statusHistory) + 1, Len(new.statusHistory))

\* the earlier entries are kept, and a change of status is recorded entry by
\* entry: every added entry names a status other than the one before it and
\* the last one names the new status
HistoryKept(old, new) ==
  /\ Len(new.statusHistory) >= Len(old.statusHistory)
  /\ SubSeq(new.statusHistory, 1, Len(old.statusHistory)) = old.statusHistory
  /\ new.status # old.status
     => LET added == Appended(old, new) IN
          /\ added # <<>>
          /\ added[Len(added)].status = new.status
          /\ \A k \in 1..Len(added) :
               added[k].status # (IF k = 1 THEN old.status ELSE added[k - 1].status)

\* the actors of all entries a step added
NewActors ==
  UNION ( {{Appended(appointments[i], appointments'[i])[k].changedBy :
              k \in 1..Len(Appended(appointments[i], appointments'[i]))} :
                 i \in ApptIds}
          \cup {{appointments'[i].statusHistory[k].changedBy :
                    k \in 1..Len(appointments'[i].statusHistory)} :
                       i \in (1..Len(appointments')) \ ApptIds}
          \cup {{Appended(projects[i], projects'[i])[k].changedBy :
                    k \in 1..Len(Appended(projects[i], projects'[i]))} :
                       i \in ProjectIds}
          \cup {{Appended(payments[i], payments'[i])[k].changedBy :
                    k \in 1..Len(Appended(payments[i], payments'[i]))} :
                       i \in PaymentIds} )

AssignReplacesWhenAllValid ==
  [][ \A pid \in ProjectIds, ids \in StaffIdInputs, u \in Staff :
        (/\ response'.op = "assignFabricationStaff"
         /\ assignFabricationStaff(pid, ids, u))
        => IF \A k \in 1..Len(ids) : ids[k] \in FabricationStaff
           THEN /\ response'.code = 200
                /\ projects'[pid].fabricationStaff = ids
           ELSE /\ response'.code = 404
                /\ projects'[pid].fabricationStaff = projects[pid].fabricationStaff
    ]_vars

\* C34: a customer account never acquires a staff role, a staff account
\* never acquires the customer role, and a staff account's role stays the one
\* given at creation, after any sequence of createUser and updateUser.
RolesFixedAtCreation ==
  [][ \A i \in UserIds :
        /\ users[i].role = "customer" => users'[i].role = "customer"
        /\ users[i].role # "customer"
           => /\ users'[i].role # "customer"
              /\ users'[i].role = users[i].role ]_vars

\* C35: for every project that has payments and every stage S, the S-stage
\* payment's amount.expected equals the project's paymentStages.S.amount, so
\* the three expected amounts sum to costing.approvedAmount, also after
\* updatePaymentStages, later uploadCosting calls and a second approval.
ExpectedFollowsStageAmounts ==
  \A pid \in ProjectIds :
    PaymentsOf(payments, pid) # {} =>
      /\ \A k \in PaymentsOf(payments, pid) :
           payments[k].expected = projects[pid].amounts[payments[k].stage]
      /\ \A i, m, f \in PaymentsOf(payments, pid) :
           (/\ payments[i].stage = "initial"
            /\ payments[m].stage = "midpoint"
            /\ payments[f].stage = "final")
           => payments[i].expected + payments[m].expected + payments[f].expected
                = projects[pid].costing.approvedAmount

\* C36: of two verifyPayment requests for the same submitted payment that
\* both read it before either saves, at most one succeeds: the payment has
\* one verified entry in statusHistory and the owning project advances at
\* most once.
VerifiedAtMostOnce ==
  /\ \A id \in PaymentIds :
       Cardinality({k \in 1..Len(payments[id].statusHistory) :
                      payments[id].statusHistory[k].status = "verified"}) <= 1
  /\ \A pid \in ProjectIds :
       Cardinality({k \in 1..Len(projects[pid].statusHistory) :
                      projects[pid].statusHistory[k].status = "in_fabrication"}) <= 1

\* no project waits for a payment that is already verified
AwaitedUnverified(projs, pays) ==
  \A pid \in 1..Len(projs), stage \in Stages :
     projs[pid].status = expectedStatuses[stage]
        => ~StageVerified(pays, pid, stage)

EndsWithStatus(doc) ==
  /\ doc.statusHistory # <<>>
  /\ doc.statusHistory[Len(doc.statusHistory)].status = doc.status

\* C38: for every appointment, project and payment the status of the last
\* statusHistory entry equals the aggregate's current status.
LastEntryIsStatus ==
  /\ \A i \in ApptIds : EndsWithStatus(appointments[i])
  /\ \A i \in ProjectIds : EndsWithStatus(projects[i])
  /\ \A i \in PaymentIds : EndsWithStatus(payments[i])

\* C39: a payment has a receipt number, a verification record and
\* amount.received set if and only if its status is verified.
ReceiptIffVerified ==
  \A id \in PaymentIds :
     LET pay == payments[id] IN
       /\ pay.status = "verified"
            => /\ pay.receipt # NoReceipt
               /\ pay.verifiedBy # NoUser
               /\ pay.received # Undefined
       /\ pay.status # "verified"
            => /\ pay.receipt = NoReceipt
               /\ pay.verifiedBy = NoUser
               /\ pay.received = Undefined

\* C40: an appointment whose status is scheduled, confirmed, in_progress or
\* completed has an assigned sales staff member, and an appointment whose
\* status is pending has none.
StaffedIffScheduled ==
  \A i \in ApptIds :
     /\ appointments[i].status \in {"scheduled", "confirmed", "in_progress", "completed"}
          => appointments[i].assignedSalesStaff \in SalesStaff
     /\ appointments[i].status = "pending"
          => appointments[i].assignedSalesStaff = NoUser

\* one appointment was assigned by the agent and completed by its staff while
\* another still waits for an assignment
CompletedBesidePending ==
  \E i, j \in ApptIds :
     /\ appointments[i].status = "completed"
     /\ appointments[i].assignedSalesStaff \in SalesStaff
     /\ \E k \in 1..Len(appointments[i].statusHistory) :
          appointments[i].statusHistory[k].changedBy \in Agents
     /\ appointments[j].status = "pending"
     /\ appointments[j].assignedSalesStaff = NoUser

====
